---- MODULE Spec2Model ----
(***************************************************************************)
(* The agent loop of the Tacticus chess coach: streamCoachResponse of      *)
(* lib/ai/agent.ts with its tool-call accumulator, tool execution and      *)
(* bounded round loop, and the two callers of the repository (the          *)
(* GurgrehChat view and generateCoachResponse).                            *)
(*                                                                         *)
(* Text is a sequence of one-character strings. One step of the model is   *)
(* one line of the event stream, or one stretch of code between two        *)
(* awaits.                                                                 *)
(***************************************************************************)
EXTENDS Integers, Sequences, FiniteSets, TLC

VARIABLES
    pc,                 \* position of the exchange in streamCoachResponse
    caller,             \* which caller of the repository runs the exchange
    vocab,              \* the record vocabulary the provider draws from
    messages,           \* the caller's history array passed to the exchange
    maxIterations,      \* remaining round budget
    openRouterMessages, \* the transcript sent with every request
    requested,          \* the messages in the body of the latest fetch
    currentToolCalls,   \* the accumulator of the running round
    hasToolCalls,       \* a tool_calls delta was seen in the running round
    fullText,           \* assistant text of the running round
    toolIdx,            \* index (1-based) of the call the for-loop is at
    calls,              \* every callback invocation so far, in order
    display,            \* the caller's state fed by the callbacks
    round,              \* history: number of model requests issued
    wire,               \* history: the lines of each round's stream
    execLog,            \* history: every executeTool invocation
    cancelled,          \* the caller has asked for the exchange to stop
    exchanges,          \* two concurrent invocations: each one's locals
    accumulators,       \* two concurrent invocations: each one's currentToolCalls
    onboarding,         \* the Onboarding component: step, name, level, customElo
    userStore,          \* the user store: loading, hasOnboarded
    pending,            \* the store call in flight: createProfile, loadProfile or none
    lastProfileCall,    \* history: the arguments of the latest createProfile call
    onboardingChecks,   \* the checkOnboarding calls waiting for their reply
    reading,            \* one response body read through the read loop
    gameStore,          \* useGameStore: gameState, isThinking, gameHistory, ...
    inFlight,           \* the game store's calls waiting for a reply or a timer
    started,            \* history: how many such calls were started
    installed,          \* history: the game whose initial position was set last
    training,           \* useTrainingStore: session, exercise, result, score, ...
    loads,              \* the startTrainingSession calls waiting for their reply
    checks,             \* the checkSolution calls waiting for their reply
    checked,            \* history: how many checkSolution calls were started
    sequential          \* history: score and streak counted one reply at a time

\* the exchange and its caller's state
exchange == <<pc, caller, vocab, messages, maxIterations, openRouterMessages,
              requested, currentToolCalls, hasToolCalls, fullText, toolIdx,
              calls, display, round, wire, execLog>>

\* the onboarding view and the store behind it
view == <<onboarding, userStore, pending, lastProfileCall, onboardingChecks>>

\* the components modelled on their own
playing == <<gameStore, inFlight, started, installed>>

exercising == <<training, loads, checks, checked, sequential>>

elsewhere == <<reading, playing, exercising>>

\* what no step of streamCoachResponse touches
outside == <<cancelled, exchanges, accumulators, onboarding, userStore, pending,
             lastProfileCall, onboardingChecks, elsewhere>>

vars == <<exchange, outside>>

(***************************************************************************)
(* Bounds of the environment.                                              *)
(***************************************************************************)
\* lines the provider sends in one exchange, loop vocabulary
MaxWire == 5
\* lines the provider sends in one exchange, stream vocabulary
MaxStreamWire == 3

\* let maxIterations = 5
MaxRounds == 5

(***************************************************************************)
(* Sequences.                                                              *)
(***************************************************************************)
IsPrefix(s, t) == Len(s) <= Len(t) /\ SubSeq(t, 1, Len(s)) = s

RECURSIVE Flatten(_)
Flatten(ss) == IF ss = <<>> THEN <<>> ELSE Head(ss) \o Flatten(Tail(ss))

\* the white space String.prototype.trim removes, as far as the texts here
\* contain it
WhiteSpace == {" ", "\t", "\r", "\n"}

\* String.prototype.trim
RECURSIVE Trim(_)
Trim(s) ==
    IF s = <<>> THEN s
    ELSE IF Head(s) \in WhiteSpace THEN Trim(Tail(s))
    ELSE IF s[Len(s)] \in WhiteSpace THEN Trim(SubSeq(s, 1, Len(s) - 1))
    ELSE s

(***************************************************************************)
(* JSON.parse on the argument texts the model uses: texts over the         *)
(* characters { } 1. "{}" is the empty object, a run of 1s is a number,    *)
(* everything else (the empty text included) is a SyntaxError.             *)
(***************************************************************************)
RECURSIVE Decimal(_)
Decimal(s) == IF s = <<>> THEN 0 ELSE 10 * Decimal(SubSeq(s, 1, Len(s) - 1)) + 1

JSONValid(s) ==
    \/ s = <<"{", "}">>
    \/ Len(s) >= 1 /\ \A i \in 1..Len(s) : s[i] = "1"

JSONParse(s) ==
    IF s = <<"{", "}">> THEN [type |-> "object", num |-> 0]
    ELSE [type |-> "number", num |-> Decimal(s)]

NoValue == [type |-> "none", num |-> 0]

\* tc.arguments || '{}'
ArgsOrDefault(a) == IF a = <<>> THEN <<"{", "}">> ELSE a

(***************************************************************************)
(* Tool registry.                                                          *)
(***************************************************************************)
ToolNames == {"getRecentGames", "getPlayerStats", "getWeaknessHistory",
              "searchGamesByOpening", "getGamesWithMistakes",
              "getTrainingProgress", "getImprovementTrend"}

NoResult      == [success |-> FALSE, error |-> "none"]
OkResult      == [success |-> TRUE,  error |-> ""]
UnknownResult == [success |-> FALSE, error |-> "Unknown tool"]
ThrownResult  == [success |-> FALSE, error |-> "Error"]
SyntaxResult  == [success |-> FALSE, error |-> "SyntaxError"]

\* The outcomes of await executeTool(name, args): a registered tool returns
\* its projection or throws when invoke rejects (or args is not an object);
\* any other name returns the failure object.
ExecuteTool(name, args) ==
    IF name \in ToolNames
    THEN {[threw |-> FALSE, result |-> OkResult],
          [threw |-> TRUE,  result |-> ThrownResult]}
    ELSE {[threw |-> FALSE, result |-> UnknownResult]}

\* JSON.stringify of a tool result
JSONStringify(r) == <<IF r.success THEN "success:true" ELSE "success:false", r.error>>

(***************************************************************************)
(* The lines of the event stream. A line is the [DONE] sentinel, a payload  *)
(* JSON.parse rejects, or a delta. A delta carries content ("" when        *)
(* absent) and, when hasTC, the array delta.tool_calls of fragments; a     *)
(* fragment carries id, function.name and function.arguments, each empty   *)
(* when absent.                                                            *)
(***************************************************************************)
Line(kind, content, hasTC, tcs) ==
    [kind |-> kind, content |-> content, hasTC |-> hasTC, tool_calls |-> tcs]

Frag(id, name, arguments) == [id |-> id, name |-> name, arguments |-> arguments]

DoneLine     == Line("done", <<>>, FALSE, <<>>)
CorruptLine  == Line("corrupt", <<>>, FALSE, <<>>)
TextLine(t)  == Line("delta", t, FALSE, <<>>)
ToolLine(fs) == Line("delta", <<>>, TRUE, fs)

\* The vocabulary of an exchange that loops through rounds: text, text
\* together with a call of a registered tool, a call of an unregistered
\* tool, and an id-less continuation that breaks the arguments of the call
\* it lands on.
LoopLines ==
    { TextLine(<<"a">>),
      Line("delta", <<"a">>, TRUE, <<Frag("A", "getPlayerStats", <<"{", "}">>)>>),
      ToolLine(<<Frag("B", "nope", <<"{", "}">>)>>),
      ToolLine(<<Frag("", "", <<"}">>)>>) }

\* The loop vocabulary without the line that breaks arguments: every call
\* parses.
PlainLines ==
    { TextLine(<<"a">>),
      Line("delta", <<"a">>, TRUE, <<Frag("A", "getPlayerStats", <<"{", "}">>)>>),
      ToolLine(<<Frag("B", "nope", <<"{", "}">>)>>) }

\* The vocabulary of a stream looked at line by line.
StreamFrags ==
    { Frag(id, na[1], na[2]) :
        id \in {"", "A", "B"},
        na \in { <<"getPlayerStats", <<"{">>>>, <<"", <<"}">>>> } }

StreamLines ==
    { DoneLine, CorruptLine, TextLine(<<"a">>), ToolLine(<<>>),
      Line("delta", <<"b">>, TRUE, <<Frag("A", "getPlayerStats", <<"1">>)>>),
      ToolLine(<<Frag("A", "getPlayerStats", <<"{">>), Frag("B", "nope", <<>>)>>),
      ToolLine(<<Frag("B", "nope", <<>>)>>) }
    \cup { ToolLine(<<f>>) : f \in StreamFrags }

Lines(v) ==
    IF v = "loop" THEN LoopLines ELSE IF v = "plain" THEN PlainLines ELSE StreamLines

WireBound(v) == IF v = "stream" THEN MaxStreamWire ELSE MaxWire

\* lines the provider sends to each of two concurrent exchanges
MaxPairWire == 2

\* The vocabulary of two concurrent exchanges: text with the opening of a
\* call, the id-less continuation that closes its arguments, and a call of
\* an unregistered tool.
PairLines ==
    { Line("delta", <<"a">>, TRUE, <<Frag("A", "getPlayerStats", <<"{">>)>>),
      ToolLine(<<Frag("", "", <<"}">>)>>),
      ToolLine(<<Frag("B", "nope", <<"{", "}">>)>>) }

(***************************************************************************)
(* The accumulator: the merge of one fragment into currentToolCalls.       *)
(***************************************************************************)
\* currentToolCalls.findIndex(c => c.id === id), 1-based, 0 when absent
FindIndex(cur, id) ==
    IF \E i \in 1..Len(cur) : cur[i].id = id
    THEN CHOOSE i \in 1..Len(cur) :
            cur[i].id = id /\ \A j \in 1..(i - 1) : cur[j].id # id
    ELSE 0

\* a merge that never looks an identifier up: every fragment that carries
\* an identifier starts an entry
MergeFragmentNoLookup(cur, tc) ==
    IF tc.id # ""
    THEN Append(cur, [id |-> tc.id, name |-> tc.name, arguments |-> tc.arguments])
    ELSE IF Len(cur) >= 1
    THEN [cur EXCEPT ![Len(cur)] =
            [id        |-> @.id,
             name      |-> IF tc.name # "" THEN tc.name ELSE @.name,
             arguments |-> @.arguments \o tc.arguments]]
    ELSE cur

\* a merge that replaces the arguments text instead of appending to it
MergeFragmentReplacing(cur, tc) ==
    LET idx == IF tc.id # "" THEN FindIndex(cur, tc.id) ELSE Len(cur)
    IN  IF tc.id # "" /\ idx = 0
        THEN Append(cur, [id |-> tc.id, name |-> tc.name, arguments |-> tc.arguments])
        ELSE IF idx >= 1
        THEN [cur EXCEPT ![idx] =
                [id        |-> @.id,
                 name      |-> IF tc.name # "" THEN tc.name ELSE @.name,
                 arguments |-> IF tc.arguments # <<>> THEN tc.arguments
                               ELSE @.arguments]]
        ELSE cur

\* a merge that starts an entry for a fragment that has no entry to go to
MergeFragmentAdopting(cur, tc) ==
    LET idx == IF tc.id # "" THEN FindIndex(cur, tc.id) ELSE Len(cur)
    IN  IF idx = 0
        THEN Append(cur, [id |-> tc.id, name |-> tc.name, arguments |-> tc.arguments])
        ELSE [cur EXCEPT ![idx] =
                [id        |-> @.id,
                 name      |-> IF tc.name # "" THEN tc.name ELSE @.name,
                 arguments |-> @.arguments \o tc.arguments]]

\* lines 412-423: the merge of one fragment of delta.tool_calls
MergeFragment(cur, tc) ==
    LET idx == IF tc.id # "" THEN FindIndex(cur, tc.id) ELSE Len(cur)
    IN  IF tc.id # "" /\ idx = 0
        THEN Append(cur, [id |-> tc.id, name |-> tc.name, arguments |-> tc.arguments])
        ELSE IF idx >= 1
        THEN [cur EXCEPT ![idx] =
                [id        |-> @.id,
                 name      |-> IF tc.name # "" THEN tc.name ELSE @.name,
                 arguments |-> @.arguments \o tc.arguments]]
        ELSE cur

RECURSIVE MergeAll(_, _)
MergeAll(cur, tcs) ==
    IF tcs = <<>> THEN cur ELSE MergeAll(MergeFragment(cur, Head(tcs)), Tail(tcs))

(***************************************************************************)
(* The body of "for (const line of lines)" for one line, on the round's    *)
(* state st = [fullText, currentToolCalls, hasToolCalls]; emitted is the   *)
(* sequence of onChunk arguments the line causes (none or one).            *)
(***************************************************************************)
RoundStart == [fullText |-> <<>>, currentToolCalls |-> <<>>, hasToolCalls |-> FALSE,
               emitted |-> <<>>]

\* a line handler that keeps the text for the end of the round
ProcessLineHoldingText(st, line) ==
    IF line.kind # "delta"
    THEN [st EXCEPT !.emitted = <<>>]
    ELSE [fullText         |-> st.fullText \o line.content,
          emitted          |-> <<>>,
          hasToolCalls     |-> st.hasToolCalls \/ line.hasTC,
          currentToolCalls |-> IF line.hasTC
                               THEN MergeAll(st.currentToolCalls, line.tool_calls)
                               ELSE st.currentToolCalls]

\* a line handler whose catch gives up the calls accumulated so far
ProcessLineDroppingCalls(st, line) ==
    IF line.kind = "corrupt"
    THEN [st EXCEPT !.emitted = <<>>, !.currentToolCalls = <<>>]
    ELSE IF line.kind # "delta"
    THEN [st EXCEPT !.emitted = <<>>]
    ELSE [fullText         |-> st.fullText \o line.content,
          emitted          |-> IF line.content # <<>> THEN <<line.content>> ELSE <<>>,
          hasToolCalls     |-> st.hasToolCalls \/ line.hasTC,
          currentToolCalls |-> IF line.hasTC
                               THEN MergeAll(st.currentToolCalls, line.tool_calls)
                               ELSE st.currentToolCalls]

ProcessLine(st, line) ==
    IF line.kind # "delta"
    THEN [st EXCEPT !.emitted = <<>>]
    ELSE [fullText         |-> st.fullText \o line.content,
          emitted          |-> IF line.content # <<>> THEN <<line.content>> ELSE <<>>,
          hasToolCalls     |-> st.hasToolCalls \/ line.hasTC,
          currentToolCalls |-> IF line.hasTC
                               THEN MergeAll(st.currentToolCalls, line.tool_calls)
                               ELSE st.currentToolCalls]

(***************************************************************************)
(* The read loop on bytes: lines 381-399.  Bytes and characters are        *)
(* strings; an ASCII byte is written as its character, the two bytes of    *)
(* the one non-ASCII character of the vocabulary as "C3" and "A9".         *)
(***************************************************************************)
LeadByte == "C3"
ContByte == "A9"
EAcute == "U+00E9"
Replacement == "U+FFFD"

\* TextDecoder.decode(value, { stream: true }) on the bytes the decoder
\* held back followed by value: the text, and the bytes held back for the
\* next call
RECURSIVE DecodeStream(_)
DecodeStream(bs) ==
    IF bs = <<>> THEN [text |-> <<>>, held |-> <<>>]
    ELSE IF Head(bs) = LeadByte
    THEN IF Len(bs) = 1 THEN [text |-> <<>>, held |-> bs]
         ELSE IF bs[2] = ContByte
         THEN LET r == DecodeStream(SubSeq(bs, 3, Len(bs)))
              IN  [text |-> <<EAcute>> \o r.text, held |-> r.held]
         ELSE LET r == DecodeStream(Tail(bs))
              IN  [text |-> <<Replacement>> \o r.text, held |-> r.held]
    ELSE LET r == DecodeStream(Tail(bs))
         IN  [text |-> <<IF Head(bs) = ContByte THEN Replacement ELSE Head(bs)>>
                          \o r.text,
              held |-> r.held]

\* String.prototype.split('\n')
RECURSIVE Split(_)
Split(s) ==
    IF \A i \in 1..Len(s) : s[i] # "\n" THEN <<s>>
    ELSE LET i == CHOOSE j \in 1..Len(s) :
                     s[j] = "\n" /\ \A k \in 1..(j - 1) : s[k] # "\n"
         IN  <<SubSeq(s, 1, i - 1)>> \o Split(SubSeq(s, i + 1, Len(s)))

DataMarker == <<"d", "a", "t", "a", ":", " ">>

DoneText == <<"[", "D", "O", "N", "E", "]">>

\* line.startsWith('data: ')
StartsWith(s, prefix) == IsPrefix(prefix, s)

\* JSON.parse(data) and the fields read from it.  One character stands for
\* each JSON text the provider sends: T for a delta with the content "a",
\* the e acute for a delta with that character as content, C for a delta
\* with a complete getPlayerStats call; every other text does not parse.
ParsePayload(data) ==
    IF data = <<"T">> THEN TextLine(<<"a">>)
    ELSE IF data = <<EAcute>> THEN TextLine(<<EAcute>>)
    ELSE IF data = <<"C">>
    THEN ToolLine(<<Frag("A", "getPlayerStats", <<"{", "}">>)>>)
    ELSE CorruptLine

\* lines 395-400: what one line of the split buffer is to the loop body
RawLine(raw) ==
    IF ~StartsWith(raw, DataMarker) THEN Line("other", <<>>, FALSE, <<>>)
    ELSE LET data == Trim(SubSeq(raw, 7, Len(raw)))
         IN  IF data = DoneText THEN DoneLine ELSE ParsePayload(data)

\* the response bodies: up to MaxRecords records, each ended by a newline
MaxRecords == 2

WireRecords ==
    { DataMarker \o <<"T", "\n">>,
      DataMarker \o <<"C", "\r", "\n">>,
      DataMarker \o <<LeadByte, ContByte, "\n">>,
      DataMarker \o <<"{", "\n">>,
      DataMarker \o DoneText \o <<"\n">>,
      <<"\n">> }

Bodies ==
    { Flatten(w) : w \in UNION { [1..n -> WireRecords] : n \in 0..MaxRecords } }

\* before the response: const decoder = new TextDecoder(); let buffer = '';
\* let fullText = ''; currentToolCalls = []; let hasToolCalls = false
ReadingIdle ==
    [phase |-> "fetching", body |-> <<>>, unread |-> <<>>, held |-> <<>>,
     buffer |-> <<>>, fullText |-> <<>>, currentToolCalls |-> <<>>,
     hasToolCalls |-> FALSE, chunks |-> <<>>, cutInside |-> FALSE,
     outcome |-> [pc |-> "", text |-> <<>>]]

\* for (const line of lines) { ... }
RECURSIVE HandleLines(_, _)
HandleLines(r, lines) ==
    IF lines = <<>> THEN r
    ELSE LET st == ProcessLine([fullText |-> r.fullText,
                                currentToolCalls |-> r.currentToolCalls,
                                hasToolCalls |-> r.hasToolCalls,
                                emitted |-> <<>>], RawLine(Head(lines)))
         IN  HandleLines([r EXCEPT !.fullText = st.fullText,
                                   !.currentToolCalls = st.currentToolCalls,
                                   !.hasToolCalls = st.hasToolCalls,
                                   !.chunks = @ \o st.emitted],
                         Tail(lines))

\* a buffer that starts afresh with every read
BufferedAfresh(buf, text) == text

\* buffer += decoder.decode(value, { stream: true })
Buffered(buf, text) == buf \o text

\* the body of the read loop for one value: lines 391-427
ApplyRead(r, value) ==
    LET dec   == DecodeStream(r.held \o value)
        lines == Split(Buffered(r.buffer, dec.text))
        after == HandleLines(r, SubSeq(lines, 1, Len(lines) - 1))
    IN  [after EXCEPT !.held = dec.held, !.buffer = lines[Len(lines)]]

(***************************************************************************)
(* The game store.  A position is the game it arose in (history: the       *)
(* number of the startNewGame call whose reply was its initial position)   *)
(* and the number of moves made; white moves at even numbers, and the      *)
(* position after MaxPly moves is mate.  A history entry is the move and   *)
(* the position it was made in.                                            *)
(***************************************************************************)
MaxPly == 2

MaxCalls == 4

NoGame == [game |-> 0, ply |-> 0]

Turn(fen) == IF fen.ply % 2 = 0 THEN "white" ELSE "black"

\* gameState.is_checkmate || gameState.is_stalemate
GameOver(fen) == fen.ply >= MaxPly

\* the new_state of a make_move that succeeds
AfterMove(fen) == [game |-> fen.game, ply |-> fen.ply + 1]

\* the plies of the positions loadPosition is called with
LoadPlies == {0, 1}

\* nothing installed yet; afterwards the game whose position was set last and
\* the function that set it
NothingInstalled == [game |-> 0, by |-> ""]

\* create<GameStore>: gameState null, selectedSquare null, isThinking false,
\* gameHistory []
GameStoreInitial ==
    [gameState |-> NoGame, selectedSquare |-> "", isThinking |-> FALSE,
     gameHistory |-> <<>>, playerColor |-> "white"]

(***************************************************************************)
(* The training store.  The session is its number of exercises (0: null),  *)
(* the current exercise its index + 1 (0: null), the exercise result "",   *)
(* "correct" or "wrong".                                                   *)
(***************************************************************************)
MaxExercises == 2

MaxChecks == 4

MaxLoads == 2

\* create<TrainingStore>: session null, score 0, streak 0, loading false
TrainingInitial ==
    [session |-> 0, currentExerciseIndex |-> 0, currentExercise |-> 0,
     exerciseResult |-> "", score |-> 0, streak |-> 0, loading |-> FALSE]

\* const bonus = streak >= 3 ? 50 : 0; streak + 1; score + 100 + bonus
Correct(streak, score) ==
    [streak |-> streak + 1,
     score  |-> score + 100 + (IF streak >= 3 THEN 50 ELSE 0)]

(***************************************************************************)
(* Messages of the transcript, and the callers' callbacks.                 *)
(***************************************************************************)
Msg(role, content, tcs, id) ==
    [role |-> role, content |-> content, tool_calls |-> tcs, tool_call_id |-> id]

\* GURGEH_SYSTEM_PROMPT
SystemPrompt == <<"S">>

\* The caller's history: a question, its answer, and the new question.
History == << [role |-> "user",      content |-> <<"q">>],
              [role |-> "assistant", content |-> <<"r">>],
              [role |-> "user",      content |-> <<"p">>] >>

\* an initial transcript that lists the history newest first
InitialTranscriptNewestFirst ==
    <<Msg("system", SystemPrompt, <<>>, "")>>
    \o [i \in 1..Len(History) |->
          Msg(History[Len(History) + 1 - i].role,
              History[Len(History) + 1 - i].content, <<>>, "")]

InitialTranscript ==
    <<Msg("system", SystemPrompt, <<>>, "")>>
    \o [i \in 1..Len(History) |-> Msg(History[i].role, History[i].content, <<>>, "")]

\* an assistant message that leaves the calls out
AssistantMsgWithoutCalls(text, cur) == Msg("assistant", text, <<>>, "")

AssistantMsg(text, cur) == Msg("assistant", text, cur, "")

ToolMsg(id, result) == Msg("tool", JSONStringify(result), <<>>, id)

Call(cb, name, text, args, result) ==
    [cb |-> cb, name |-> name, text |-> text, args |-> args, result |-> result]

Callers == {"GurgrehChat", "generateCoachResponse"}

\* GurgrehChat passes onToolCall and onToolResult, generateCoachResponse
\* passes neither.
HasOnToolCall(c)   == c = "GurgrehChat"
HasOnToolResult(c) == c = "GurgrehChat"

\* `I encountered an error: ${error.message}. Please check your API key ...`
ErrorNotice == <<"I encountered an error">>

\* The caller's onChunk, onComplete and onError on its own state: the last
\* display message of GurgrehChat, or the fullText closure and the promise
\* of generateCoachResponse (isStreaming: the promise is pending).
OnChunk(c, d, chunk) ==
    IF c = "GurgrehChat"
    THEN IF d.isStreaming THEN [d EXCEPT !.content = @ \o chunk] ELSE d
    ELSE [d EXCEPT !.content = @ \o chunk]

OnComplete(c, d, text) ==
    IF c = "GurgrehChat"
    THEN IF d.isStreaming THEN [content |-> text, isStreaming |-> FALSE] ELSE d
    ELSE [d EXCEPT !.isStreaming = FALSE]

OnError(c, d) ==
    IF c = "GurgrehChat"
    THEN IF d.isStreaming THEN [content |-> ErrorNotice, isStreaming |-> FALSE] ELSE d
    ELSE [d EXCEPT !.isStreaming = FALSE]

(***************************************************************************)
(* streamCoachResponse.                                                    *)
(***************************************************************************)
Invocations == {1, 2}

\* the first invocation is GurgrehChat's, the second generateCoachResponse's
PairCaller(i) == IF i = 1 THEN "GurgrehChat" ELSE "generateCoachResponse"

\* the locals of an invocation on entry
PairStart ==
    [pc |-> "AwaitingModel", maxIterations |-> MaxRounds,
     openRouterMessages |-> InitialTranscript, hasToolCalls |-> FALSE,
     fullText |-> <<>>, toolIdx |-> 0, calls |-> <<>>, round |-> 0, wire |-> <<>>]

InitWith(v) ==
    /\ onboarding = [step |-> 0, name |-> <<>>, level |-> "", customElo |-> ""]
    /\ userStore = [loading |-> FALSE, hasOnboarded |-> FALSE]
    /\ pending = "none"
    /\ lastProfileCall = <<>>
    /\ onboardingChecks = 0
    /\ exchanges = [i \in Invocations |-> PairStart]
    /\ accumulators = [i \in Invocations |-> <<>>]
    /\ pc = "AwaitingModel"
    /\ caller \in Callers
    /\ vocab = v
    /\ messages = History
    /\ maxIterations = MaxRounds
    /\ openRouterMessages = InitialTranscript
    /\ requested = <<>>
    /\ currentToolCalls = <<>>
    /\ hasToolCalls = FALSE
    /\ fullText = <<>>
    /\ toolIdx = 0
    /\ calls = <<>>
    /\ display = [content |-> <<>>, isStreaming |-> TRUE]
    /\ round = 0
    /\ wire = <<>>
    /\ execLog = <<>>
    /\ cancelled = FALSE
    /\ reading = ReadingIdle
    /\ gameStore = GameStoreInitial
    /\ inFlight = {}
    /\ started = 0
    /\ installed = NothingInstalled
    /\ training = TrainingInitial
    /\ loads = 0
    /\ checks = {}
    /\ checked = 0
    /\ sequential = [score |-> 0, streak |-> 0]

Init == InitWith("loop")

InitStream == InitWith("stream")

InitPlain == InitWith("plain")

\* an error path that throws the rounds before it away
FailForgetting ==
    /\ pc' = "Failed"
    /\ openRouterMessages' = InitialTranscript
    /\ calls' = Append(calls, Call("onError", "", <<>>, NoValue, NoResult))
    /\ display' = OnError(caller, display)

\* a catch that swallows the error without telling the caller
FailSilently ==
    /\ pc' = "Failed"
    /\ openRouterMessages' = openRouterMessages
    /\ calls' = calls
    /\ display' = display

\* catch (error) { callbacks.onError(...) }
Fail ==
    /\ pc' = "Failed"
    /\ openRouterMessages' = openRouterMessages
    /\ calls' = Append(calls, Call("onError", "", <<>>, NoValue, NoResult))
    /\ display' = OnError(caller, display)

\* a round that does not count against the budget
DecrementBudgetForgotten(n) == n

\* maxIterations--
DecrementBudget(n) == n - 1

\* an accumulator that is not emptied between rounds
FreshToolCallsKept == currentToolCalls

\* currentToolCalls = [] at the start of a round
FreshToolCalls == <<>>

\* lines delivered in the whole exchange
WireTotal == Len(Flatten(wire))

\* a request body that leaves the tool results out
RequestMessagesWithoutResults(msgs) == SelectSeq(msgs, LAMBDA m : m.role # "tool")

\* body: JSON.stringify({ model, messages: openRouterMessages, ... })
RequestMessages(msgs) == msgs

\* while (maxIterations > 0) { maxIterations--; fetch(...) up to its await
Request ==
    /\ pc = "AwaitingModel"
    /\ maxIterations > 0
    /\ maxIterations' = DecrementBudget(maxIterations)
    /\ round' = round + 1
    /\ requested' = RequestMessages(openRouterMessages)
    /\ wire' = Append(wire, <<>>)
    /\ pc' = "Fetching"
    /\ UNCHANGED outside
    /\ UNCHANGED <<caller, vocab, messages, openRouterMessages,
                   currentToolCalls, hasToolCalls, fullText, toolIdx, calls,
                   display, execLog>>

\* fetch resolves with response.ok and a body: the reader, the decoder and
\* the resets of lines 381-385
ResponseArrives ==
    /\ pc = "Fetching"
    /\ fullText' = <<>>
    /\ currentToolCalls' = FreshToolCalls
    /\ hasToolCalls' = FALSE
    /\ pc' = "Streaming"
    /\ UNCHANGED outside
    /\ UNCHANGED <<caller, vocab, messages, requested, maxIterations,
                   openRouterMessages, toolIdx, calls, display, round, wire,
                   execLog>>

\* fetch rejects, or resolves with response.ok and no body
RequestFails ==
    /\ pc = "Fetching"
    /\ Fail
    /\ UNCHANGED outside
    /\ UNCHANGED <<caller, vocab, messages, requested, maxIterations,
                   currentToolCalls, hasToolCalls, fullText, toolIdx, round,
                   wire, execLog>>

\* fetch resolves with !response.ok: await response.text()
ResponseNotOk ==
    /\ pc = "Fetching"
    /\ pc' = "ReadingError"
    /\ UNCHANGED outside
    /\ UNCHANGED <<caller, vocab, messages, requested, maxIterations,
                   openRouterMessages, currentToolCalls, hasToolCalls,
                   fullText, toolIdx, calls, display, round, wire, execLog>>

\* response.text() settles: throw new Error(`API error: ...`), or its
\* rejection, into the outer catch
ErrorTextSettles ==
    /\ pc = "ReadingError"
    /\ Fail
    /\ UNCHANGED outside
    /\ UNCHANGED <<caller, vocab, messages, requested, maxIterations,
                   currentToolCalls, hasToolCalls, fullText, toolIdx, round,
                   wire, execLog>>

\* the while loop ends: callbacks.onComplete('')
BudgetExhausted ==
    /\ pc = "AwaitingModel"
    /\ maxIterations = 0
    /\ pc' = "Done"
    /\ calls' = Append(calls, Call("onComplete", "", <<>>, NoValue, NoResult))
    /\ display' = OnComplete(caller, display, <<>>)
    /\ UNCHANGED outside
    /\ UNCHANGED <<caller, vocab, messages, requested, maxIterations,
                   openRouterMessages, currentToolCalls, hasToolCalls,
                   fullText, toolIdx, round, wire, execLog>>

\* one line out of reader.read()
ReadLine(line) ==
    /\ pc = "Streaming"
    /\ WireTotal < WireBound(vocab)
    /\ LET st == ProcessLine([fullText |-> fullText,
                              currentToolCalls |-> currentToolCalls,
                              hasToolCalls |-> hasToolCalls,
                              emitted |-> <<>>], line)
       IN  /\ fullText' = st.fullText
           /\ currentToolCalls' = st.currentToolCalls
           /\ hasToolCalls' = st.hasToolCalls
           /\ calls' = calls \o [i \in 1..Len(st.emitted) |->
                                    Call("onChunk", "", st.emitted[i], NoValue, NoResult)]
           /\ display' = IF st.emitted = <<>> THEN display
                         ELSE OnChunk(caller, display, st.emitted[1])
    /\ wire' = [wire EXCEPT ![round] = Append(@, line)]
    /\ UNCHANGED outside
    /\ UNCHANGED <<pc, caller, vocab, messages, requested, maxIterations,
                   openRouterMessages, toolIdx, round, execLog>>

\* reader.read() rejects
ReadFails ==
    /\ pc = "Streaming"
    /\ Fail
    /\ UNCHANGED outside
    /\ UNCHANGED <<caller, vocab, messages, requested, maxIterations,
                   currentToolCalls, hasToolCalls, fullText, toolIdx, round,
                   wire, execLog>>

\* a round taken to be without tool calls on the flag alone
NoToolCallsByFlag(has, cur) == ~has

\* !hasToolCalls || currentToolCalls.length === 0
NoToolCalls(has, cur) == ~has \/ Len(cur) = 0

\* reader.read() returns done
StreamEnds ==
    /\ pc = "Streaming"
    /\ IF NoToolCalls(hasToolCalls, currentToolCalls)
       THEN /\ pc' = "Done"
            /\ calls' = Append(calls, Call("onComplete", "", fullText, NoValue, NoResult))
            /\ display' = OnComplete(caller, display, fullText)
            /\ UNCHANGED <<openRouterMessages, toolIdx>>
       ELSE /\ pc' = "AwaitingToolResults"
            /\ openRouterMessages' =
                  Append(openRouterMessages, AssistantMsg(fullText, currentToolCalls))
            /\ toolIdx' = 1
            /\ UNCHANGED <<calls, display>>
    /\ UNCHANGED outside
    /\ UNCHANGED <<caller, vocab, messages, requested, maxIterations,
                   currentToolCalls, hasToolCalls, fullText, round, wire,
                   execLog>>

\* where the for loop over currentToolCalls goes after call i
AfterCall(i) ==
    IF i >= Len(currentToolCalls) THEN "AwaitingModel" ELSE "AwaitingToolResults"

\* a for loop that writes the defaulted arguments text back into the call
StartToolDefaultingArguments ==
    /\ pc = "AwaitingToolResults"
    /\ LET tc    == currentToolCalls[toolIdx]
           text  == ArgsOrDefault(tc.arguments)
           valid == JSONValid(text)
       IN  IF HasOnToolCall(caller) /\ ~valid
           THEN \* JSON.parse throws outside the inner try
                /\ Fail
                /\ UNCHANGED <<toolIdx, execLog>>
           ELSE /\ calls' = IF HasOnToolCall(caller)
                            THEN Append(calls, Call("onToolCall", tc.name, <<>>,
                                                    JSONParse(text), NoResult))
                            ELSE calls
                /\ display' = display
                /\ IF valid
                   THEN /\ pc' = "Executing"
                        /\ execLog' = Append(execLog, [round |-> round, id |-> tc.id,
                                                       name |-> tc.name,
                                                       args |-> JSONParse(text)])
                        /\ UNCHANGED <<openRouterMessages, toolIdx>>
                   ELSE \* JSON.parse throws inside the inner try
                        /\ openRouterMessages' =
                              Append(openRouterMessages, ToolMsg(tc.id, SyntaxResult))
                        /\ toolIdx' = toolIdx + 1
                        /\ pc' = AfterCall(toolIdx)
                        /\ UNCHANGED execLog
    /\ UNCHANGED outside
    /\ currentToolCalls' =
          [currentToolCalls EXCEPT ![toolIdx].arguments = ArgsOrDefault(@)]
    /\ UNCHANGED <<caller, vocab, messages, requested, maxIterations,
                   hasToolCalls, fullText, round, wire>>

\* for (const tc of currentToolCalls): onToolCall?.(name, JSON.parse(...)),
\* then try { JSON.parse(...); executeTool(...) up to its await
StartTool ==
    /\ pc = "AwaitingToolResults"
    /\ LET tc    == currentToolCalls[toolIdx]
           text  == ArgsOrDefault(tc.arguments)
           valid == JSONValid(text)
       IN  IF HasOnToolCall(caller) /\ ~valid
           THEN \* JSON.parse throws outside the inner try
                /\ Fail
                /\ UNCHANGED <<toolIdx, execLog>>
           ELSE /\ calls' = IF HasOnToolCall(caller)
                            THEN Append(calls, Call("onToolCall", tc.name, <<>>,
                                                    JSONParse(text), NoResult))
                            ELSE calls
                /\ display' = display
                /\ IF valid
                   THEN /\ pc' = "Executing"
                        /\ execLog' = Append(execLog, [round |-> round, id |-> tc.id,
                                                       name |-> tc.name,
                                                       args |-> JSONParse(text)])
                        /\ UNCHANGED <<openRouterMessages, toolIdx>>
                   ELSE \* JSON.parse throws inside the inner try
                        /\ openRouterMessages' =
                              Append(openRouterMessages, ToolMsg(tc.id, SyntaxResult))
                        /\ toolIdx' = toolIdx + 1
                        /\ pc' = AfterCall(toolIdx)
                        /\ UNCHANGED execLog
    /\ UNCHANGED outside
    /\ UNCHANGED <<caller, vocab, messages, requested, maxIterations,
                   currentToolCalls, hasToolCalls, fullText, round, wire>>

\* a for loop without the try around the execution: what the executor
\* throws reaches the outer catch
ToolSettlesUncaught ==
    /\ pc = "Executing"
    /\ LET tc == currentToolCalls[toolIdx]
       IN  \E out \in ExecuteTool(tc.name, JSONParse(ArgsOrDefault(tc.arguments))) :
              IF out.threw
              THEN /\ Fail
                   /\ toolIdx' = toolIdx
              ELSE /\ calls' = IF HasOnToolResult(caller)
                               THEN Append(calls, Call("onToolResult", tc.name, <<>>,
                                                       NoValue, out.result))
                               ELSE calls
                   /\ openRouterMessages' =
                         Append(openRouterMessages, ToolMsg(tc.id, out.result))
                   /\ toolIdx' = toolIdx + 1
                   /\ pc' = AfterCall(toolIdx)
                   /\ display' = display
    /\ UNCHANGED outside
    /\ UNCHANGED <<caller, vocab, messages, requested, maxIterations,
                   currentToolCalls, hasToolCalls, fullText, round, wire,
                   execLog>>

\* await executeTool(...) settles: onToolResult?.() and the tool message, or
\* the catch block's tool message
ToolSettles ==
    /\ pc = "Executing"
    /\ LET tc == currentToolCalls[toolIdx]
       IN  \E out \in ExecuteTool(tc.name, JSONParse(ArgsOrDefault(tc.arguments))) :
              /\ calls' = IF ~out.threw /\ HasOnToolResult(caller)
                          THEN Append(calls, Call("onToolResult", tc.name, <<>>,
                                                  NoValue, out.result))
                          ELSE calls
              /\ openRouterMessages' =
                    Append(openRouterMessages, ToolMsg(tc.id, out.result))
    /\ toolIdx' = toolIdx + 1
    /\ pc' = AfterCall(toolIdx)
    /\ UNCHANGED outside
    /\ UNCHANGED <<caller, vocab, messages, requested, maxIterations,
                   currentToolCalls, hasToolCalls, fullText, display, round,
                   wire, execLog>>

Next ==
    \/ Request
    \/ ResponseArrives
    \/ RequestFails
    \/ ResponseNotOk
    \/ ErrorTextSettles
    \/ BudgetExhausted
    \/ \E line \in Lines(vocab) : ReadLine(line)
    \/ ReadFails
    \/ StreamEnds
    \/ StartTool
    \/ ToolSettles

Spec == Init /\ [][Next]_vars

\* The exchange as far as MaxStreamWire lines of the stream vocabulary take
\* it: fewer rounds than the budget, so the loop never runs out.
NextStream ==
    \/ Request
    \/ ResponseArrives
    \/ RequestFails
    \/ ResponseNotOk
    \/ ErrorTextSettles
    \/ \E line \in Lines(vocab) : ReadLine(line)
    \/ ReadFails
    \/ StreamEnds
    \/ StartTool
    \/ ToolSettles

SpecStream == InitStream /\ [][NextStream]_vars

\* Every stream ends and every executor settles: the exchange, a single
\* task, always takes its next step.
FairSpec == InitPlain /\ [][Next]_vars /\ WF_vars(Next)

\* The caller closes the coach window while the exchange runs. Nothing of
\* this reaches streamCoachResponse: it takes no signal and returns
\* Promise<void>.
Cancel ==
    /\ ~cancelled
    /\ pc \notin {"Done", "Failed"}
    /\ cancelled' = TRUE
    /\ UNCHANGED <<exchange, exchanges, accumulators, view, elsewhere>>

NextCancel ==
    \/ Cancel
    \/ Request
    \/ ResponseArrives
    \/ RequestFails
    \/ ResponseNotOk
    \/ ErrorTextSettles
    \/ BudgetExhausted
    \/ \E line \in Lines(vocab) : ReadLine(line)
    \/ ReadFails
    \/ StreamEnds
    \/ StartTool
    \/ ToolSettles

\* An exchange whose caller may ask for it to stop at any moment.
SpecCancel == InitPlain /\ [][NextCancel]_vars

(***************************************************************************)
(* Two invocations of streamCoachResponse running at the same time: the    *)
(* steps above, taken by invocation i on its own locals.                   *)
(***************************************************************************)
\* an accumulator declared at module level: every invocation uses the same
OwnerShared(i) == 1

\* let currentToolCalls inside streamCoachResponse: every invocation has its
\* own
Owner(i) == i

AccumulatorOf(i) == accumulators[Owner(i)]

PairFail(e) ==
    [e EXCEPT !.pc = "Failed",
              !.calls = Append(@, Call("onError", "", <<>>, NoValue, NoResult))]

PairAfterCall(i) ==
    IF exchanges[i].toolIdx >= Len(AccumulatorOf(i))
    THEN "AwaitingModel" ELSE "AwaitingToolResults"

PairRequest(i) ==
    /\ exchanges[i].pc = "AwaitingModel"
    /\ exchanges[i].maxIterations > 0
    /\ exchanges' = [exchanges EXCEPT ![i] =
                        [@ EXCEPT !.maxIterations = DecrementBudget(@),
                                  !.round = @ + 1,
                                  !.wire = Append(@, <<>>),
                                  !.pc = "Fetching"]]
    /\ UNCHANGED <<accumulators, exchange, elsewhere, cancelled, view>>

PairResponseArrives(i) ==
    /\ exchanges[i].pc = "Fetching"
    /\ exchanges' = [exchanges EXCEPT ![i] =
                        [@ EXCEPT !.fullText = <<>>,
                                  !.hasToolCalls = FALSE,
                                  !.pc = "Streaming"]]
    /\ accumulators' = [accumulators EXCEPT ![Owner(i)] = <<>>]
    /\ UNCHANGED <<exchange, elsewhere, cancelled, view>>

PairRequestFails(i) ==
    /\ exchanges[i].pc = "Fetching"
    /\ exchanges' = [exchanges EXCEPT ![i] = PairFail(@)]
    /\ UNCHANGED <<accumulators, exchange, elsewhere, cancelled, view>>

PairResponseNotOk(i) ==
    /\ exchanges[i].pc = "Fetching"
    /\ exchanges' = [exchanges EXCEPT ![i] = [@ EXCEPT !.pc = "ReadingError"]]
    /\ UNCHANGED <<accumulators, exchange, elsewhere, cancelled, view>>

PairErrorTextSettles(i) ==
    /\ exchanges[i].pc = "ReadingError"
    /\ exchanges' = [exchanges EXCEPT ![i] = PairFail(@)]
    /\ UNCHANGED <<accumulators, exchange, elsewhere, cancelled, view>>

PairReadLine(i, line) ==
    /\ exchanges[i].pc = "Streaming"
    /\ Len(Flatten(exchanges[i].wire)) < MaxPairWire
    /\ LET e  == exchanges[i]
           st == ProcessLine([fullText |-> e.fullText,
                              currentToolCalls |-> AccumulatorOf(i),
                              hasToolCalls |-> e.hasToolCalls,
                              emitted |-> <<>>], line)
       IN  /\ exchanges' = [exchanges EXCEPT ![i] =
                  [e EXCEPT !.fullText = st.fullText,
                            !.hasToolCalls = st.hasToolCalls,
                            !.calls = @ \o [k \in 1..Len(st.emitted) |->
                                               Call("onChunk", "", st.emitted[k],
                                                    NoValue, NoResult)],
                            !.wire = [@ EXCEPT ![e.round] = Append(@, line)]]]
           /\ accumulators' = [accumulators EXCEPT ![Owner(i)] = st.currentToolCalls]
    /\ UNCHANGED <<exchange, elsewhere, cancelled, view>>

PairReadFails(i) ==
    /\ exchanges[i].pc = "Streaming"
    /\ exchanges' = [exchanges EXCEPT ![i] = PairFail(@)]
    /\ UNCHANGED <<accumulators, exchange, elsewhere, cancelled, view>>

PairStreamEnds(i) ==
    /\ exchanges[i].pc = "Streaming"
    /\ LET e == exchanges[i]
       IN  exchanges' = [exchanges EXCEPT ![i] =
              IF NoToolCalls(e.hasToolCalls, AccumulatorOf(i))
              THEN [e EXCEPT !.pc = "Done",
                             !.calls = Append(@, Call("onComplete", "", e.fullText,
                                                      NoValue, NoResult))]
              ELSE [e EXCEPT !.pc = "AwaitingToolResults",
                             !.openRouterMessages =
                                 Append(@, AssistantMsg(e.fullText, AccumulatorOf(i))),
                             !.toolIdx = 1]]
    /\ UNCHANGED <<accumulators, exchange, elsewhere, cancelled, view>>

PairStartTool(i) ==
    /\ exchanges[i].pc = "AwaitingToolResults"
    /\ LET e     == exchanges[i]
           tc    == AccumulatorOf(i)[e.toolIdx]
           text  == ArgsOrDefault(tc.arguments)
           valid == JSONValid(text)
           told  == IF HasOnToolCall(PairCaller(i))
                    THEN Append(e.calls, Call("onToolCall", tc.name, <<>>,
                                              JSONParse(text), NoResult))
                    ELSE e.calls
       IN  exchanges' = [exchanges EXCEPT ![i] =
              IF HasOnToolCall(PairCaller(i)) /\ ~valid
              THEN PairFail(e)
              ELSE IF valid
              THEN [e EXCEPT !.calls = told, !.pc = "Executing"]
              ELSE [e EXCEPT !.calls = told,
                             !.openRouterMessages =
                                 Append(@, ToolMsg(tc.id, SyntaxResult)),
                             !.toolIdx = @ + 1,
                             !.pc = PairAfterCall(i)]]
    /\ UNCHANGED <<accumulators, exchange, elsewhere, cancelled, view>>

PairToolSettles(i) ==
    /\ exchanges[i].pc = "Executing"
    /\ LET e  == exchanges[i]
           tc == AccumulatorOf(i)[e.toolIdx]
       IN  \E out \in ExecuteTool(tc.name, JSONParse(ArgsOrDefault(tc.arguments))) :
              exchanges' = [exchanges EXCEPT ![i] =
                 [e EXCEPT !.calls = IF ~out.threw /\ HasOnToolResult(PairCaller(i))
                                     THEN Append(@, Call("onToolResult", tc.name, <<>>,
                                                         NoValue, out.result))
                                     ELSE @,
                           !.openRouterMessages = Append(@, ToolMsg(tc.id, out.result)),
                           !.toolIdx = @ + 1,
                           !.pc = PairAfterCall(i)]]
    /\ UNCHANGED <<accumulators, exchange, elsewhere, cancelled, view>>

PairNext ==
    \E i \in Invocations :
       \/ PairRequest(i)
       \/ PairResponseArrives(i)
       \/ PairRequestFails(i)
       \/ PairResponseNotOk(i)
       \/ PairErrorTextSettles(i)
       \/ \E line \in PairLines : PairReadLine(i, line)
       \/ PairReadFails(i)
       \/ PairStreamEnds(i)
       \/ PairStartTool(i)
       \/ PairToolSettles(i)

\* Two invocations interleaved at their awaits, as far as MaxPairWire lines
\* each take them.
InitPair == InitWith("plain") /\ caller = "GurgrehChat"

SpecPair == InitPair /\ [][PairNext]_vars

(***************************************************************************)
(* The Onboarding component and the createProfile / loadProfile calls of   *)
(* the user store. The level null is the empty string: both are falsy, and *)
(* setLevel is only called with one of the four level names.               *)
(***************************************************************************)
\* characters of a typed name
MaxNameLen == 2

\* checkOnboarding calls in flight at a time
MaxOnboardingChecks == 1

NameInputs == UNION {[1..n -> {" ", "b"}] : n \in 0..MaxNameLen}

\* what the number input leaves in customElo
EloInputs == {"", "1200"}

Levels == {"beginner", "intermediate", "advanced", "custom"}


\* a Continue button that looks at the name as typed
ContinueDisabledUntrimmed(o) == o.name = <<>>

\* disabled={!name.trim()}
ContinueDisabled(o) == Trim(o.name) = <<>>

\* disabled={!level || (level === 'custom' && !customElo) || loading}
BeginDisabled(o, store) ==
    o.level = "" \/ (o.level = "custom" /\ o.customElo = "") \/ store.loading

\* the view is rendered while !hasOnboarded
Mounted == ~userStore.hasOnboarded

\* no continuation of a settled promise is waiting to run: the state in
\* which the browser dispatches the next input event
Settled == pending # "onComplete"

\* onChange={setName}
TypeName(n) ==
    /\ Settled
    /\ Mounted
    /\ onboarding.step = 0
    /\ onboarding' = [onboarding EXCEPT !.name = n]
    /\ UNCHANGED <<userStore, pending, lastProfileCall, onboardingChecks, exchange,
                   elsewhere, cancelled, exchanges, accumulators>>

\* onClick={() => setStep(1)}
Continue ==
    /\ Settled
    /\ Mounted
    /\ onboarding.step = 0
    /\ ~ContinueDisabled(onboarding)
    /\ onboarding' = [onboarding EXCEPT !.step = 1]
    /\ UNCHANGED <<userStore, pending, lastProfileCall, onboardingChecks, exchange,
                   elsewhere, cancelled, exchanges, accumulators>>

\* onClick={() => setStep(0)}
Back ==
    /\ Settled
    /\ Mounted
    /\ onboarding.step = 1
    /\ onboarding' = [onboarding EXCEPT !.step = 0]
    /\ UNCHANGED <<userStore, pending, lastProfileCall, onboardingChecks, exchange,
                   elsewhere, cancelled, exchanges, accumulators>>

\* handleLevelSelect
SelectLevel(l) ==
    /\ Settled
    /\ Mounted
    /\ onboarding.step = 1
    /\ onboarding' = [onboarding EXCEPT !.level = l]
    /\ UNCHANGED <<userStore, pending, lastProfileCall, onboardingChecks, exchange,
                   elsewhere, cancelled, exchanges, accumulators>>

\* onChange={setCustomElo} of the input shown for the custom level
TypeElo(x) ==
    /\ Settled
    /\ Mounted
    /\ onboarding.step = 1
    /\ onboarding.level = "custom"
    /\ onboarding' = [onboarding EXCEPT !.customElo = x]
    /\ UNCHANGED <<userStore, pending, lastProfileCall, onboardingChecks, exchange,
                   elsewhere, cancelled, exchanges, accumulators>>

\* handleComplete up to the await inside createProfile
BeginTraining ==
    /\ Settled
    /\ Mounted
    /\ onboarding.step = 1
    /\ ~BeginDisabled(onboarding, userStore)
    /\ LET finalLevel == IF onboarding.level = "custom" THEN onboarding.customElo
                         ELSE onboarding.level
       IN  IF onboarding.name # <<>> /\ finalLevel # ""
           THEN /\ userStore' = [userStore EXCEPT !.loading = TRUE]
                /\ pending' = "createProfile"
                /\ lastProfileCall' = <<[name |-> onboarding.name,
                                         level |-> finalLevel]>>
           ELSE UNCHANGED <<userStore, pending, lastProfileCall>>
    /\ UNCHANGED <<onboarding, onboardingChecks, exchange,
                   elsewhere, cancelled, exchanges, accumulators>>

\* invoke('create_user_profile') settles: createProfile sets the store and
\* returns; handleComplete is still to resume after its await
CreateSettles(ok) ==
    /\ pending = "createProfile"
    /\ userStore' = [loading |-> FALSE,
                     hasOnboarded |-> ok \/ userStore.hasOnboarded]
    /\ pending' = "onComplete"
    /\ UNCHANGED <<onboarding, lastProfileCall, onboardingChecks, exchange,
                   elsewhere, cancelled, exchanges, accumulators>>

\* handleComplete resumes: onComplete(), which is the app's
\* handleOnboardingComplete, calls loadProfile up to its await
OnboardingComplete ==
    /\ pending = "onComplete"
    /\ userStore' = [userStore EXCEPT !.loading = TRUE]
    /\ pending' = "loadProfile"
    /\ UNCHANGED <<onboarding, lastProfileCall, onboardingChecks, exchange,
                   elsewhere, cancelled, exchanges, accumulators>>

\* invoke('get_user_profile') settles
LoadSettles ==
    /\ pending = "loadProfile"
    /\ userStore' = [userStore EXCEPT !.loading = FALSE]
    /\ pending' = "none"
    /\ UNCHANGED <<onboarding, lastProfileCall, onboardingChecks, exchange,
                   elsewhere, cancelled, exchanges, accumulators>>

\* checkOnboarding() up to its await
CheckOnboarding ==
    /\ Settled
    /\ onboardingChecks < MaxOnboardingChecks
    /\ onboardingChecks' = onboardingChecks + 1
    /\ UNCHANGED <<onboarding, userStore, pending, lastProfileCall, exchange,
                   elsewhere, cancelled, exchanges, accumulators>>

\* what invoke('has_completed_onboarding') settles with
OnboardingAnswers == {"true", "false", "throws"}

\* the view's state after the store's hasOnboarded has become h: App renders
\* Onboarding while !hasOnboarded, and a view mounted again starts from its
\* useState initial values
Rendered(h) ==
    IF userStore.hasOnboarded /\ ~h
    THEN [step |-> 0, name |-> <<>>, level |-> "", customElo |-> ""]
    ELSE onboarding

\* invoke('has_completed_onboarding') settles: set({ hasOnboarded }), or
\* set({ error }) when it throws
OnboardingChecked(answer) ==
    /\ Settled
    /\ onboardingChecks > 0
    /\ onboardingChecks' = onboardingChecks - 1
    /\ IF answer = "throws"
       THEN UNCHANGED <<userStore, onboarding>>
       ELSE /\ userStore' = [userStore EXCEPT !.hasOnboarded = (answer = "true")]
            /\ onboarding' = Rendered(answer = "true")
    /\ UNCHANGED <<pending, lastProfileCall, exchange, elsewhere, cancelled,
                   exchanges, accumulators>>

NextOnboarding ==
    \/ \E n \in NameInputs : TypeName(n)
    \/ Continue
    \/ Back
    \/ \E l \in Levels : SelectLevel(l)
    \/ \E x \in EloInputs : TypeElo(x)
    \/ BeginTraining
    \/ \E ok \in BOOLEAN : CreateSettles(ok)
    \/ OnboardingComplete
    \/ LoadSettles
    \/ CheckOnboarding
    \/ \E answer \in OnboardingAnswers : OnboardingChecked(answer)

\* the view as the app first renders it
InitOnboarding == InitWith("plain") /\ caller = "GurgrehChat"

SpecOnboarding == InitOnboarding /\ [][NextOnboarding]_vars

(***************************************************************************)
(* One response body going through the read loop of lines 387-434, the     *)
(* reader handing it over in values of any length.                         *)
(***************************************************************************)
besideReading ==
    <<exchange, cancelled, exchanges, accumulators, view, playing, exercising>>

\* the fetch resolves with a response whose body is w
Respond(w) ==
    /\ reading.phase = "fetching"
    /\ reading' = [ReadingIdle EXCEPT !.phase = "reading", !.body = w,
                                      !.unread = w]
    /\ UNCHANGED besideReading

\* reader.read() resolves with the next n bytes
ReadValue(n) ==
    /\ reading.phase = "reading"
    /\ n \in 1..Len(reading.unread)
    /\ LET after == ApplyRead(reading, SubSeq(reading.unread, 1, n))
       IN  reading' =
              [after EXCEPT !.unread = SubSeq(@, n + 1, Len(@)),
                            !.cutInside = @ \/ after.buffer # <<>>
                                            \/ after.held # <<>>]
    /\ UNCHANGED besideReading

\* reader.read() resolves with done; lines 430-445
ReadDone ==
    /\ reading.phase = "reading"
    /\ reading.unread = <<>>
    /\ reading' =
          [reading EXCEPT
              !.phase = "ended",
              !.outcome =
                  [pc   |-> IF NoToolCalls(reading.hasToolCalls,
                                           reading.currentToolCalls)
                            THEN "Done" ELSE "AwaitingToolResults",
                   text |-> reading.fullText]]
    /\ UNCHANGED besideReading

NextReading ==
    \/ \E w \in Bodies : Respond(w)
    \/ \E n \in 1..Len(reading.unread) : ReadValue(n)
    \/ ReadDone

InitReading == InitWith("plain") /\ caller = "GurgrehChat"

SpecReading == InitReading /\ [][NextReading]_vars

(***************************************************************************)
(* The game store's asynchronous functions and PlayMode's handlers.  A     *)
(* call in flight is [id, fn, at, fen, uci, color]: the function, the      *)
(* invoke or timer it waits for, and the locals it captured.               *)
(***************************************************************************)
besidePlaying ==
    <<exchange, cancelled, exchanges, accumulators, view, reading, exercising>>

InFlight(id, fn, at, fen, uci, color) ==
    [id |-> id, fn |-> fn, at |-> at, fen |-> fen, uci |-> uci, color |-> color]

\* makeEngineMove up to its first await, on the store st: the store after
\* it and the calls it puts in flight
EngineMoveStarted(st, id) ==
    IF st.gameState = NoGame \/ GameOver(st.gameState)
    THEN [store |-> st, calls |-> {}]
    ELSE [store |-> [st EXCEPT !.isThinking = TRUE],
          calls |-> {InFlight(id, "makeEngineMove", "get_engine_move",
                              st.gameState, "", "")}]

\* PlayMode.handleStartGame: startNewGame(color) up to its await
StartNewGame(color) ==
    /\ started < MaxCalls
    /\ started' = started + 1
    /\ inFlight' = inFlight \cup
          {InFlight(started + 1, "startNewGame", "get_initial_position",
                    NoGame, "", color)}
    /\ UNCHANGED <<gameStore, installed>>
    /\ UNCHANGED besidePlaying

\* get_initial_position answers: the set, and for black makeEngineMove()
InitialPositionArrives(t, ok) ==
    /\ t \in inFlight
    /\ t.at = "get_initial_position"
    /\ IF ok
       THEN LET st == [gameStore EXCEPT
                         !.gameState = [game |-> t.id, ply |-> 0],
                         !.selectedSquare = "",
                         !.gameHistory = <<>>,
                         !.playerColor = t.color]
                em == IF t.color = "black"
                      THEN EngineMoveStarted(st, started + 1)
                      ELSE [store |-> st, calls |-> {}]
            IN  /\ gameStore' = em.store
                /\ inFlight' = (inFlight \ {t}) \cup em.calls
                /\ started' = started + Cardinality(em.calls)
                /\ installed' = [game |-> t.id, by |-> "startNewGame"]
       ELSE /\ inFlight' = inFlight \ {t}
            /\ UNCHANGED <<gameStore, started, installed>>
    /\ UNCHANGED besidePlaying

\* PlayMode.handleMove and makeMove up to its await
HandleMove ==
    /\ started < MaxCalls
    /\ gameStore.gameState # NoGame
    /\ ~gameStore.isThinking
    /\ Turn(gameStore.gameState) = gameStore.playerColor
    /\ started' = started + 1
    /\ inFlight' = inFlight \cup
          {InFlight(started + 1, "makeMove", "make_move",
                    gameStore.gameState, "player", "")}
    /\ UNCHANGED <<gameStore, installed>>
    /\ UNCHANGED besidePlaying

\* selectSquare(square) on a square with legal moves from it: it is selected
SelectSquare ==
    /\ gameStore.gameState # NoGame
    /\ Turn(gameStore.gameState) = gameStore.playerColor
    /\ ~GameOver(gameStore.gameState)
    /\ gameStore.selectedSquare = ""
    /\ gameStore' = [gameStore EXCEPT !.selectedSquare = "e2"]
    /\ UNCHANGED <<inFlight, started, installed>>
    /\ UNCHANGED besidePlaying

\* resetSelection()
ResetSelection ==
    /\ gameStore' = [gameStore EXCEPT !.selectedSquare = ""]
    /\ UNCHANGED <<inFlight, started, installed>>
    /\ UNCHANGED besidePlaying

\* selectSquare(square) on a square without legal moves from it while a
\* square is selected: makeMove(selectedSquare, square) up to its await
SelectTarget ==
    /\ started < MaxCalls
    /\ gameStore.gameState # NoGame
    /\ Turn(gameStore.gameState) = gameStore.playerColor
    /\ gameStore.selectedSquare # ""
    /\ started' = started + 1
    /\ inFlight' = inFlight \cup
          {InFlight(started + 1, "makeMove", "make_move",
                    gameStore.gameState, "player", "")}
    /\ UNCHANGED <<gameStore, installed>>
    /\ UNCHANGED besidePlaying

\* loadPosition(fen) up to its await, for the position of a game of its own
LoadPosition(ply) ==
    /\ started < MaxCalls
    /\ started' = started + 1
    /\ inFlight' = inFlight \cup
          {InFlight(started + 1, "loadPosition", "get_position_from_fen",
                    [game |-> started + 1, ply |-> ply], "", "")}
    /\ UNCHANGED <<gameStore, installed>>
    /\ UNCHANGED besidePlaying

\* get_position_from_fen answers
PositionArrives(t, ok) ==
    /\ t \in inFlight
    /\ t.at = "get_position_from_fen"
    /\ inFlight' = inFlight \ {t}
    /\ IF ok
       THEN /\ gameStore' = [gameStore EXCEPT !.gameState = t.fen,
                                              !.selectedSquare = ""]
            /\ installed' = [game |-> t.id, by |-> "loadPosition"]
       ELSE UNCHANGED <<gameStore, installed>>
    /\ UNCHANGED started
    /\ UNCHANGED besidePlaying

\* make_move answers makeMove: reply is "success", "rejected" or "throws"
MoveAnswered(t, reply) ==
    /\ t \in inFlight
    /\ t.fn = "makeMove"
    /\ IF reply = "success"
       THEN /\ gameStore' =
                  [gameStore EXCEPT
                      !.gameState = AfterMove(t.fen),
                      !.selectedSquare = "",
                      !.gameHistory = Append(@, [uci |-> t.uci, on |-> t.fen])]
            /\ IF GameOver(AfterMove(t.fen))
               THEN inFlight' = inFlight \ {t}
               ELSE inFlight' = (inFlight \ {t}) \cup
                       {InFlight(t.id, "setTimeout", "timeout", NoGame, "", "")}
       ELSE /\ inFlight' = inFlight \ {t}
            /\ UNCHANGED gameStore
    /\ UNCHANGED <<started, installed>>
    /\ UNCHANGED besidePlaying

\* setTimeout(() => get().makeEngineMove(), 500) fires
TimerFires(t) ==
    /\ t \in inFlight
    /\ t.at = "timeout"
    /\ LET em == EngineMoveStarted(gameStore, t.id)
       IN  /\ gameStore' = em.store
           /\ inFlight' = (inFlight \ {t}) \cup em.calls
    /\ UNCHANGED <<started, installed>>
    /\ UNCHANGED besidePlaying

\* get_engine_move answers, and makeEngineMove invokes make_move
EngineMoveArrives(t, ok) ==
    /\ t \in inFlight
    /\ t.at = "get_engine_move"
    /\ IF ok
       THEN /\ inFlight' = (inFlight \ {t}) \cup
                   {[t EXCEPT !.at = "make_move", !.uci = "engine"]}
            /\ UNCHANGED gameStore
       ELSE /\ inFlight' = inFlight \ {t}
            /\ gameStore' = [gameStore EXCEPT !.isThinking = FALSE]
    /\ UNCHANGED <<started, installed>>
    /\ UNCHANGED besidePlaying

\* make_move answers makeEngineMove
EngineMoveAnswered(t, reply) ==
    /\ t \in inFlight
    /\ t.fn = "makeEngineMove"
    /\ t.at = "make_move"
    /\ inFlight' = inFlight \ {t}
    /\ gameStore' =
          IF reply = "success"
          THEN [gameStore EXCEPT
                   !.gameState = AfterMove(t.fen),
                   !.gameHistory = Append(@, [uci |-> t.uci, on |-> t.fen]),
                   !.isThinking = FALSE]
          ELSE IF reply = "throws"
          THEN [gameStore EXCEPT !.isThinking = FALSE]
          ELSE gameStore
    /\ UNCHANGED <<started, installed>>
    /\ UNCHANGED besidePlaying

Replies == {"success", "rejected", "throws"}

NextPlaying ==
    \/ \E color \in {"white", "black"} : StartNewGame(color)
    \/ \E t \in inFlight : \E ok \in BOOLEAN : InitialPositionArrives(t, ok)
    \/ HandleMove
    \/ SelectSquare
    \/ SelectTarget
    \/ ResetSelection
    \/ \E ply \in LoadPlies : LoadPosition(ply)
    \/ \E t \in inFlight : \E ok \in BOOLEAN : PositionArrives(t, ok)
    \/ \E t \in inFlight : \E reply \in Replies : MoveAnswered(t, reply)
    \/ \E t \in inFlight : TimerFires(t)
    \/ \E t \in inFlight : \E ok \in BOOLEAN : EngineMoveArrives(t, ok)
    \/ \E t \in inFlight : \E reply \in Replies : EngineMoveAnswered(t, reply)

InitPlaying == InitWith("plain") /\ caller = "GurgrehChat"

SpecPlaying == InitPlaying /\ [][NextPlaying]_vars

(***************************************************************************)
(* The training store's functions and TrainMode's handlers.  A             *)
(* checkSolution in flight is [id, streak, score]: the values it read      *)
(* before its await.                                                       *)
(***************************************************************************)
besideExercising ==
    <<exchange, cancelled, exchanges, accumulators, view, reading, playing>>

\* TrainMode's effect on mount, if (!session): startTrainingSession(10) up
\* to its await
StartTrainingSession ==
    /\ training.session = 0
    /\ loads < MaxLoads
    /\ training' = [training EXCEPT !.loading = TRUE]
    /\ loads' = loads + 1
    /\ UNCHANGED <<checks, checked, sequential>>
    /\ UNCHANGED besideExercising

\* get_training_exercises answers one of the calls with n exercises, or
\* throws
SessionArrives(ok, n) ==
    /\ loads > 0
    /\ loads' = loads - 1
    /\ IF ok
       THEN /\ training' =
                  [session |-> n, currentExerciseIndex |-> 0,
                   currentExercise |-> 1, exerciseResult |-> "",
                   score |-> 0, streak |-> 0, loading |-> FALSE]
            /\ sequential' = [score |-> 0, streak |-> 0]
       ELSE /\ training' = [training EXCEPT !.loading = FALSE]
            /\ UNCHANGED sequential
    /\ UNCHANGED <<checks, checked>>
    /\ UNCHANGED besideExercising

\* the End Session button: endSession()
EndSession ==
    /\ training.session # 0
    /\ ~training.loading
    /\ training' = [training EXCEPT !.session = 0,
                                    !.currentExerciseIndex = 0,
                                    !.currentExercise = 0,
                                    !.exerciseResult = ""]
    /\ UNCHANGED <<loads, checks, checked, sequential>>
    /\ UNCHANGED besideExercising

\* TrainMode.handleMove: checkSolution(move) up to its await
CheckSolution ==
    /\ checked < MaxChecks
    /\ training.session # 0
    /\ ~training.loading
    /\ training.currentExercise # 0
    /\ training.exerciseResult = ""
    /\ checked' = checked + 1
    /\ checks' = checks \cup {[id |-> checked + 1, streak |-> training.streak,
                                score |-> training.score]}
    /\ UNCHANGED <<training, loads, sequential>>
    /\ UNCHANGED besideExercising

\* check_exercise_solution answers: "correct", "incorrect" or "throws"
SolutionChecked(t, reply) ==
    /\ t \in checks
    /\ checks' = checks \ {t}
    /\ IF reply = "correct"
       THEN /\ training' =
                  [training EXCEPT
                      !.exerciseResult = "correct",
                      !.streak = Correct(t.streak, t.score).streak,
                      !.score = Correct(t.streak, t.score).score]
            /\ sequential' = Correct(sequential.streak, sequential.score)
       ELSE IF reply = "incorrect"
       THEN /\ training' = [training EXCEPT !.exerciseResult = "wrong",
                                            !.streak = 0]
            /\ sequential' = [sequential EXCEPT !.streak = 0]
       ELSE UNCHANGED <<training, sequential>>
    /\ UNCHANGED <<loads, checked>>
    /\ UNCHANGED besideExercising

\* TrainMode.handleNext with an exercise left: nextExercise()
NextExercise ==
    /\ training.session # 0
    /\ training.exerciseResult # ""
    /\ training.currentExerciseIndex + 1 < training.session
    /\ training' = [training EXCEPT
                       !.currentExerciseIndex = @ + 1,
                       !.currentExercise = training.currentExerciseIndex + 2,
                       !.exerciseResult = ""]
    /\ UNCHANGED <<loads, checks, checked, sequential>>
    /\ UNCHANGED besideExercising

\* TrainMode.handleRetry: resetExercise()
ResetExercise ==
    /\ training.session # 0
    /\ training.exerciseResult = "wrong"
    /\ training' = [training EXCEPT !.exerciseResult = ""]
    /\ UNCHANGED <<loads, checks, checked, sequential>>
    /\ UNCHANGED besideExercising

NextExercising ==
    \/ StartTrainingSession
    \/ \E ok \in BOOLEAN : \E n \in 1..MaxExercises : SessionArrives(ok, n)
    \/ CheckSolution
    \/ \E t \in checks :
          \E reply \in {"correct", "incorrect", "throws"} : SolutionChecked(t, reply)
    \/ NextExercise
    \/ ResetExercise
    \/ EndSession

InitExercising == InitWith("plain") /\ caller = "GurgrehChat"

SpecExercising == InitExercising /\ [][NextExercising]_vars

(***************************************************************************)
(* What the claims speak of.                                               *)
(***************************************************************************)
\* the arguments of the onChunk calls so far, in order
Chunks ==
    LET chunkCalls == SelectSeq(calls, LAMBDA c : c.cb = "onChunk")
    IN  [i \in 1..Len(chunkCalls) |-> chunkCalls[i].text]

\* all text delivered through onChunk
Streamed == Flatten(Chunks)

CallsOf(cb) == SelectSeq(calls, LAMBDA c : c.cb = cb)

Terminal == pc \in {"Done", "Failed"}

\* the tool-call fragments of a round's lines, in wire order
RECURSIVE AllFrags(_)
AllFrags(lines) ==
    IF lines = <<>> THEN <<>>
    ELSE (IF Head(lines).kind = "delta" /\ Head(lines).hasTC
          THEN Head(lines).tool_calls ELSE <<>>) \o AllFrags(Tail(lines))

\* the identifiers of a sequence of fragments in the order they first appear
RECURSIVE FirstSeenIds(_, _)
FirstSeenIds(frags, seen) ==
    IF frags = <<>> THEN seen
    ELSE LET id == Head(frags).id
         IN  IF id = "" \/ \E i \in 1..Len(seen) : seen[i] = id
             THEN FirstSeenIds(Tail(frags), seen)
             ELSE FirstSeenIds(Tail(frags), Append(seen, id))

IdsOf(cur) == [i \in 1..Len(cur) |-> cur[i].id]

ArgsValid(tc) == JSONValid(ArgsOrDefault(tc.arguments))

InToolLoop == pc \in {"AwaitingToolResults", "Executing"}

\* C1: a completed call whose arguments text is not valid JSON fails alone:
\* the step that handles it appends a tool message with success=false for
\* its identifier and goes on to the next call or the next round, for every
\* caller; the exchange does not end through onError.
C1_ParseFailureContained ==
    [][ (pc = "AwaitingToolResults" /\ ~ArgsValid(currentToolCalls[toolIdx]))
        => /\ pc' \in {"AwaitingToolResults", "AwaitingModel"}
           /\ Len(openRouterMessages') = Len(openRouterMessages) + 1
           /\ LET m == openRouterMessages'[Len(openRouterMessages')]
              IN  /\ m.role = "tool"
                  /\ m.tool_call_id = currentToolCalls[toolIdx].id
                  /\ m.content[1] = "success:false"
           /\ CallsOf("onError")' = <<>> ]_vars

\* an assistant message at position p carrying N calls is followed by
\* exactly N tool messages that reference its calls' identifiers in order
PairedAt(t, p) ==
    LET n == Len(t[p].tool_calls)
    IN  /\ p + n <= Len(t)
        /\ \A k \in 1..n : /\ t[p + k].role = "tool"
                           /\ t[p + k].tool_call_id = t[p].tool_calls[k].id
        /\ p + n < Len(t) => t[p + n + 1].role # "tool"
        /\ \A k, l \in 1..n : t[p].tool_calls[k].id = t[p].tool_calls[l].id => k = l

\* C2: a round that accumulated N >= 1 calls adds one assistant message
\* carrying them, in the order their identifiers were first seen on the
\* wire, followed by exactly N tool messages referencing those identifiers
\* in that order, whatever the executors do.
C2_RoundTranscriptPaired ==
    /\ InToolLoop =>
          /\ IdsOf(currentToolCalls) = FirstSeenIds(AllFrags(wire[round]), <<>>)
          /\ openRouterMessages[Len(openRouterMessages) - (toolIdx - 1)]
                = AssistantMsg(fullText, currentToolCalls)
    /\ ~InToolLoop =>
          \A p \in 1..Len(openRouterMessages) :
             /\ openRouterMessages[p].role = "assistant" => PairedAt(openRouterMessages, p)
             /\ openRouterMessages[p].role = "tool" =>
                   \E q \in 1..(p - 1) :
                      /\ openRouterMessages[q].role = "assistant"
                      /\ p - q <= Len(openRouterMessages[q].tool_calls)

\* executeTool invocations of round r for identifier id
Executions(r, id) ==
    Cardinality({i \in 1..Len(execLog) : execLog[i].round = r /\ execLog[i].id = id})

\* C3: a call accumulated in a round is executed at most once in the whole
\* exchange, only in the round whose stream carried its identifier, and
\* exactly once as soon as the for loop has passed it when all calls of the
\* round have parseable arguments.
C3_ExecutedOnce ==
    /\ \A i, j \in 1..Len(execLog) :
          (execLog[i].round = execLog[j].round /\ execLog[i].id = execLog[j].id) => i = j
    /\ \A i \in 1..Len(execLog) :
          \E k \in 1..Len(AllFrags(wire[execLog[i].round])) :
             AllFrags(wire[execLog[i].round])[k].id = execLog[i].id
    /\ (/\ round >= 1
        /\ pc \in {"AwaitingToolResults", "Executing", "AwaitingModel", "Done"}
        /\ hasToolCalls
        /\ \A k \in 1..Len(currentToolCalls) : ArgsValid(currentToolCalls[k]))
       => \A k \in 1..Len(currentToolCalls) :
             Executions(round, currentToolCalls[k].id)
                = IF k < toolIdx \/ (k = toolIdx /\ pc = "Executing") THEN 1 ELSE 0

\* a round in which the identifier of a call came in two fragments has been
\* executed, and a later round has executed a call too
C3_Witness ==
    /\ Len(execLog) >= 2
    /\ execLog[1].round = 1
    /\ execLog[2].round = 2
    /\ Cardinality({k \in 1..Len(AllFrags(wire[1])) :
                       AllFrags(wire[1])[k].id = execLog[1].id}) >= 2

\* the fragments of the running round all belong to one call: the first
\* carries the identifier, the later ones carry it again or none
SingleCall(frags) ==
    /\ frags # <<>>
    /\ frags[1].id # ""
    /\ \A k \in 2..Len(frags) : frags[k].id \in {"", frags[1].id}

FragArgs(frags) == Flatten([k \in 1..Len(frags) |-> frags[k].arguments])

\* C4: however the arguments text of a single call is cut into fragments,
\* the accumulator holds the text that one fragment carrying the whole text
\* leaves, and the tool is invoked with the parse of that text.
C4_FragmentationInvariant ==
    (round >= 1 /\ SingleCall(AllFrags(wire[round]))) =>
       LET frags == AllFrags(wire[round])
           whole == MergeFragment(<<>>, Frag(frags[1].id, "", FragArgs(frags)))
       IN  /\ Len(currentToolCalls) = 1
           /\ currentToolCalls[1].id = whole[1].id
           /\ currentToolCalls[1].arguments = whole[1].arguments
           /\ \A i \in 1..Len(execLog) :
                 execLog[i].round = round =>
                    execLog[i].args = JSONParse(ArgsOrDefault(whole[1].arguments))

\* a call whose arguments "{}" came in two fragments is being executed
C4_Witness ==
    /\ pc = "Executing"
    /\ SingleCall(AllFrags(wire[round]))
    /\ Len(AllFrags(wire[round])) = 2
    /\ \A k \in 1..2 : AllFrags(wire[round])[k].arguments # <<>>
    /\ currentToolCalls[1].arguments = <<"{", "}">>

\* C5: the budget starts at MaxRounds, every model request takes exactly
\* one off it and nothing else changes it, it never goes below zero, and
\* the exchange is Done or Failed after at most MaxRounds + 1 requests.
C5_BoundedRounds ==
    /\ [](/\ maxIterations \in 0..MaxRounds
          /\ maxIterations = MaxRounds - round
          /\ round <= MaxRounds + 1)
    /\ [][ /\ round' \in {round, round + 1}
           /\ round' = round + 1 <=> maxIterations' = maxIterations - 1
           /\ round' = round <=> maxIterations' = maxIterations ]_vars
    /\ <>Terminal

\* the model asked for tools in every round and the budget ran out
C5_Witness ==
    /\ pc = "Done"
    /\ round = MaxRounds
    /\ maxIterations = 0
    /\ Len(execLog) >= MaxRounds

\* the exchange ended because the budget ran out, not because a stream
\* ended without tool calls
SoftStopped == pc = "Done" /\ hasToolCalls /\ Len(currentToolCalls) > 0

\* C6: when the budget runs out the exchange ends in Done: onComplete has
\* fired exactly once, with the text the model produced (empty only if it
\* produced none), and onError has not fired.
C6_SoftStopKeepsText ==
    SoftStopped =>
       /\ Len(CallsOf("onComplete")) = 1
       /\ CallsOf("onError") = <<>>
       /\ CallsOf("onComplete")[1].text = <<>> => Streamed = <<>>

\* the tool callbacks so far, in order
ToolCallbacks == SelectSeq(calls, LAMBDA c : c.cb \in {"onToolCall", "onToolResult"})

ToolMessages == SelectSeq(openRouterMessages, LAMBDA m : m.role = "tool")

\* C7: for a caller that passes both callbacks, the calls of a round are
\* handled one after the other in first-seen order: onToolCall(name, parsed
\* arguments), the execution, onToolResult(name, result) also for a failed
\* execution, the tool message; one executor at a time; and the next round
\* follows the last call.
C7_ToolCallbacksInOrder ==
    (HasOnToolCall(caller) /\ HasOnToolResult(caller)) =>
       /\ \A i \in 1..Len(ToolCallbacks) :
             /\ ToolCallbacks[i].cb = IF i % 2 = 1 THEN "onToolCall" ELSE "onToolResult"
             /\ i % 2 = 0 => ToolCallbacks[i].name = ToolCallbacks[i - 1].name
       /\ Len(CallsOf("onToolCall")) = Len(execLog)
       /\ \A i \in 1..Len(execLog) :
             /\ CallsOf("onToolCall")[i].name = execLog[i].name
             /\ CallsOf("onToolCall")[i].args = execLog[i].args
       /\ Len(CallsOf("onToolResult")) = Len(ToolMessages)
       /\ Len(CallsOf("onToolCall")) =
             Len(CallsOf("onToolResult")) + (IF pc = "Executing" THEN 1 ELSE 0)
       /\ (pc = "AwaitingModel" /\ round >= 1) => toolIdx = Len(currentToolCalls) + 1

\* C8: a failed request or a failed read ends the exchange in Failed through
\* onError, and takes nothing back: the transcript is as it was, the
\* callbacks delivered before are as they were, and no step ever removes or
\* reorders a message or a delivered callback.
C8_TransportErrorKeepsHistory ==
    [][ /\ IsPrefix(openRouterMessages, openRouterMessages')
        /\ IsPrefix(calls, calls')
        /\ (pc \in {"Fetching", "ReadingError", "Streaming"} /\ pc' = "Failed") =>
              /\ openRouterMessages' = openRouterMessages
              /\ calls' = Append(calls, Call("onError", "", <<>>, NoValue, NoResult))
              /\ Chunks' = Chunks
        /\ pc = "Failed" => UNCHANGED vars ]_vars

\* the request of the second round failed after a round that streamed text
\* and reported a tool result
C8_Witness ==
    /\ pc = "Failed"
    /\ round = 2
    /\ wire[2] = <<>>
    /\ Chunks # <<>>
    /\ ToolMessages # <<>>

\* C9: in GurgrehChat the text streamed into the assistant message stays
\* when the exchange ends with an error; the explanation comes after it.
C9_ErrorKeepsStreamedText ==
    (caller = "GurgrehChat" /\ pc = "Failed") =>
       /\ IsPrefix(Streamed, display.content)
       /\ IsPrefix(ErrorNotice, SubSeq(display.content, Len(Streamed) + 1,
                                       Len(display.content)))

\* the lines of a round without those whose payload JSON.parse rejects
Intact(lines) == SelectSeq(lines, LAMBDA l : l.kind # "corrupt")

RECURSIVE Replay(_, _)
Replay(st, lines) ==
    IF lines = <<>> THEN st ELSE Replay(ProcessLine(st, Head(lines)), Tail(lines))

\* the onChunk arguments a sequence of lines causes
RECURSIVE Emitted(_, _)
Emitted(st, lines) ==
    IF lines = <<>> THEN <<>>
    ELSE LET nx == ProcessLine(st, Head(lines))
         IN  nx.emitted \o Emitted(nx, Tail(lines))

\* C10: a line whose payload is corrupt is skipped on its own: the round's
\* text, accumulator and tool-call flag, and the chunks delivered in the
\* exchange, are those of the same streams without the corrupt lines, and
\* the step that reads a corrupt line stays in the stream and calls nothing.
C10_CorruptLineSkipped ==
    /\ [](round >= 1 =>
            /\ LET st == Replay(RoundStart, Intact(wire[round]))
               IN  pc = "Streaming" =>
                      /\ fullText = st.fullText
                      /\ currentToolCalls = st.currentToolCalls
                      /\ hasToolCalls = st.hasToolCalls
            /\ Chunks = Flatten([r \in 1..round |-> Emitted(RoundStart, Intact(wire[r]))]))
    /\ [][ (/\ pc = "Streaming"
            /\ Len(wire'[round]) = Len(wire[round]) + 1
            /\ wire'[round][Len(wire'[round])].kind = "corrupt")
           => /\ pc' = "Streaming"
              /\ UNCHANGED <<fullText, currentToolCalls, hasToolCalls, calls,
                             display, openRouterMessages>> ]_vars

\* a corrupt line came between the two fragments of a call and after a text
\* line, and the call is being executed
C10_Witness ==
    /\ pc = "Executing"
    /\ \E i \in 1..Len(wire[round]) :
          /\ wire[round][i].kind = "corrupt"
          /\ \E j \in 1..(i - 1) : wire[round][j].hasTC
          /\ \E j \in (i + 1)..Len(wire[round]) : wire[round][j].hasTC
    /\ Len(currentToolCalls) = 1

\* the assistant text on a round's lines, record by record: the content of
\* every delta that carries some
TextOf(lines) ==
    LET withText == SelectSeq(lines, LAMBDA l : l.kind = "delta" /\ l.content # <<>>)
    IN  [i \in 1..Len(withText) |-> withText[i].content]

\* C11: when a round's stream ends with no tool call accumulated, the
\* exchange ends in Done with one more callback, onComplete with the
\* concatenation of the round's text fragments; no tool callback fires while
\* the round streams; in Done onComplete has fired once and onError never,
\* and nothing follows: no request, no callback, no message.
C11_TextOnlyRoundCompletes ==
    /\ [][ (pc = "Streaming" /\ pc' \notin {"Streaming", "Failed"}
             /\ Len(currentToolCalls) = 0)
            => /\ pc' = "Done"
               /\ calls' = Append(calls, Call("onComplete", "",
                                              Flatten(TextOf(wire[round])),
                                              NoValue, NoResult))
               /\ UNCHANGED <<openRouterMessages, round, maxIterations>> ]_vars
    /\ [][ pc = "Streaming" => ToolCallbacks' = ToolCallbacks ]_vars
    /\ [](pc = "Done" => /\ Len(CallsOf("onComplete")) = 1
                         /\ CallsOf("onError") = <<>>)
    /\ [][ pc = "Done" => UNCHANGED vars ]_vars

\* a round of two text records and a fragment that belongs to no call has
\* ended the exchange
C11_Witness ==
    /\ pc = "Done"
    /\ hasToolCalls
    /\ currentToolCalls = <<>>
    /\ Len(TextOf(wire[round])) = 2
    /\ CallsOf("onComplete")[1].text = Flatten(TextOf(wire[round]))

\* C12: the step in which an execution settles never ends the exchange: it
\* appends exactly one tool message for the call's identifier, which for an
\* unregistered name reports success=false, and a failure always carries an
\* error description; onError does not fire; the loop goes on to the next
\* call of the round, or past the last one to the while head, where with
\* budget left the only step is the next model request.
C12_ToolFailureContained ==
    /\ [][ pc = "Executing"
            => LET tc == currentToolCalls[toolIdx]
                   m  == openRouterMessages'[Len(openRouterMessages')]
               IN  /\ openRouterMessages' = Append(openRouterMessages, m)
                   /\ m.role = "tool"
                   /\ m.tool_call_id = tc.id
                   /\ tc.name \notin ToolNames => m.content[1] = "success:false"
                   /\ m.content[1] = "success:false" => m.content[2] \notin {"", "none"}
                   /\ CallsOf("onError")' = CallsOf("onError")
                   /\ toolIdx' = toolIdx + 1
                   /\ pc' = IF toolIdx < Len(currentToolCalls)
                            THEN "AwaitingToolResults" ELSE "AwaitingModel" ]_vars
    /\ [][ (pc = "AwaitingModel" /\ maxIterations > 0) => round' = round + 1 ]_vars

\* the executor of the first call of a round threw, the second call named an
\* unregistered tool; both are reported and the next round streams
C12_Witness ==
    /\ pc = "Streaming"
    /\ round = 2
    /\ Len(ToolMessages) = 2
    /\ ToolMessages[1].content = JSONStringify(ThrownResult)
    /\ ToolMessages[2].content = JSONStringify(UnknownResult)
    /\ CallsOf("onError") = <<>>

\* the onChunk arguments of the running round: the last ones delivered, as
\* many as the round's lines carry text
RoundChunks ==
    SubSeq(Chunks, Len(Chunks) - Len(TextOf(wire[round])) + 1, Len(Chunks))

\* C13: the step that reads a record calls onChunk with the record's text
\* when it has some and calls nothing otherwise, so the chunks of the
\* exchange are the texts of the records in wire order, delivered before the
\* next record is read; and the concatenation of the running round's chunks
\* is the round's text, which is the content of the assistant message the
\* round records.
C13_ChunksFollowWire ==
    /\ [][ (pc = "Streaming" /\ Len(wire'[round]) = Len(wire[round]) + 1)
            => LET line == wire'[round][Len(wire'[round])]
               IN  calls' = calls \o
                      [i \in 1..Len(TextOf(<<line>>)) |->
                          Call("onChunk", "", line.content, NoValue, NoResult)] ]_vars
    /\ [](round >= 1 =>
            /\ Chunks = Flatten([r \in 1..round |-> TextOf(wire[r])])
            /\ pc \in {"Streaming", "AwaitingToolResults", "Executing"} =>
                  Flatten(RoundChunks) = fullText
            /\ InToolLoop =>
                  openRouterMessages[Len(openRouterMessages) - (toolIdx - 1)].content
                     = Flatten(RoundChunks))

\* a round delivered "a", then a record without text, then "b" together
\* with a call, and recorded the text "ab"
C13_Witness ==
    /\ pc = "Executing"
    /\ RoundChunks = << <<"a">>, <<"b">> >>
    /\ Len(wire[round]) = 3
    /\ wire[round][2].kind = "delta"
    /\ wire[round][2].content = <<>>
    /\ openRouterMessages[Len(openRouterMessages)].content = <<"a", "b">>

\* the positions after assistant message q up to the next assistant message:
\* what the round of q added to the transcript after it
RoundBlock(t, q) ==
    {p \in (q + 1)..Len(t) : \A r \in (q + 1)..p : t[r].role # "assistant"}

\* every tool message answers a call of the assistant message of its round,
\* and every call of an assistant message has exactly one tool message with
\* its identifier in its round
WellPaired(t) ==
    /\ \A p \in 1..Len(t) :
          t[p].role = "tool" =>
             \E q \in 1..(p - 1) :
                /\ t[q].role = "assistant"
                /\ p \in RoundBlock(t, q)
                /\ \E k \in 1..Len(t[q].tool_calls) :
                      t[q].tool_calls[k].id = t[p].tool_call_id
    /\ \A q \in 1..Len(t) :
          t[q].role = "assistant" =>
             \A k \in 1..Len(t[q].tool_calls) :
                Cardinality({p \in RoundBlock(t, q) :
                                /\ t[p].role = "tool"
                                /\ t[p].tool_call_id = t[q].tool_calls[k].id}) = 1

\* C14: whenever a model request is issued, the transcript it sends is well
\* paired. (Identifiers are unique within a round; a later round may use
\* one again, and its tool message answers the later call.)
C14_PairedAtRequest ==
    [][ round' = round + 1 => WellPaired(openRouterMessages) ]_vars

\* the third request carries a round of two calls and a round of one call,
\* each with its tool messages
C14_Witness ==
    /\ pc = "Streaming"
    /\ round = 3
    /\ Len(ToolMessages) = 3
    /\ \E q \in 1..Len(openRouterMessages) :
          /\ openRouterMessages[q].role = "assistant"
          /\ Len(openRouterMessages[q].tool_calls) = 2
    /\ WellPaired(openRouterMessages)

\* C15: the transcript of the first request is the system prompt followed
\* by the caller's history, message by message in its order; every step
\* leaves the transcript as it was or adds messages at its end, so each
\* later request sends the earlier one's transcript with messages added at
\* the end only; and no step changes the caller's history array.
C15_TranscriptAppendOnly ==
    /\ [][ (round = 0 /\ round' = 1)
            => openRouterMessages =
                  <<Msg("system", SystemPrompt, <<>>, "")>>
                  \o [i \in 1..Len(messages) |->
                        Msg(messages[i].role, messages[i].content, <<>>, "")] ]_vars
    /\ [][ round' = round + 1 => openRouterMessages' = openRouterMessages ]_vars
    /\ [][ /\ IsPrefix(openRouterMessages, openRouterMessages')
           /\ messages' = messages ]_vars
    /\ [](messages = History)

\* the second request sends the first one's transcript followed by the
\* assistant message and the tool messages of the first round
C15_Witness ==
    /\ pc = "Streaming"
    /\ round = 2
    /\ Len(openRouterMessages) >= Len(messages) + 1 + 3
    /\ \A i \in 1..Len(messages) :
          /\ openRouterMessages[i + 1].role = messages[i].role
          /\ openRouterMessages[i + 1].content = messages[i].content

\* C16: once the caller has cancelled, the steps the exchange resumes with
\* do nothing the caller can see: no onChunk, onToolCall or onToolResult,
\* no model request, no message appended; and what was delivered stays.
C16_CancellationStops ==
    [][ cancelled
        => /\ Chunks' = Chunks
           /\ ToolCallbacks' = ToolCallbacks
           /\ round' = round
           /\ openRouterMessages' = openRouterMessages ]_vars

\* the assistant messages an invocation has added to its transcript
AssistantsOf(e) ==
    SelectSeq(SubSeq(e.openRouterMessages, Len(InitialTranscript) + 1,
                     Len(e.openRouterMessages)),
              LAMBDA m : m.role = "assistant")

\* what an invocation running alone holds after the lines of its own wire:
\* round counter and budget, the round's text, flag and accumulator, the
\* chunks delivered, the assistant message of every round that asked for
\* tools, the tool messages and onToolCall callbacks in the order of those
\* rounds' calls, and the text onComplete carries
AsIfAlone(i) ==
    LET e        == exchanges[i]
        after(r) == Replay(RoundStart, e.wire[r])
        asked    == AssistantsOf(e)
        toolMsgs == SelectSeq(e.openRouterMessages, LAMBDA m : m.role = "tool")
        told     == SelectSeq(e.calls, LAMBDA c : c.cb = "onToolCall")
        chunks   == SelectSeq(e.calls, LAMBDA c : c.cb = "onChunk")
        ended    == SelectSeq(e.calls, LAMBDA c : c.cb = "onComplete")
        due      == Flatten([r \in 1..Len(asked) |-> after(r).currentToolCalls])
    IN  /\ e.round = Len(e.wire)
        /\ e.maxIterations = MaxRounds - e.round
        /\ e.pc \in {"Streaming", "AwaitingToolResults", "Executing"} =>
              /\ e.fullText = after(e.round).fullText
              /\ e.hasToolCalls = after(e.round).hasToolCalls
              /\ AccumulatorOf(i) = after(e.round).currentToolCalls
        /\ [k \in 1..Len(chunks) |-> chunks[k].text]
              = Flatten([r \in 1..e.round |-> TextOf(e.wire[r])])
        /\ Len(asked) \in {e.round - 1, e.round}
        /\ e.pc \in {"AwaitingToolResults", "Executing"} => Len(asked) = e.round
        /\ \A r \in 1..Len(asked) :
              asked[r] = AssistantMsg(after(r).fullText, after(r).currentToolCalls)
        /\ Len(toolMsgs) <= Len(due)
        /\ \A k \in 1..Len(toolMsgs) : toolMsgs[k].tool_call_id = due[k].id
        /\ Len(told) <= Len(due)
        /\ \A k \in 1..Len(told) : told[k].name = due[k].name
        /\ e.pc = "Done" =>
              /\ Len(ended) = 1
              /\ ended[1].text = after(e.round).fullText

\* C17: with two invocations interleaved at their awaits in every possible
\* way, each one's transcript, accumulator, round state and callbacks are
\* what its own wire makes them when it runs alone.
C17_ConcurrentExchangesIndependent ==
    \A i \in Invocations : AsIfAlone(i)

\* both invocations are waiting for an executor at the same time, each for
\* a call of its own
C17_Witness ==
    /\ exchanges[1].pc = "Executing"
    /\ exchanges[2].pc = "Executing"
    /\ AccumulatorOf(1)[1].id = "A"
    /\ AccumulatorOf(2)[1].id = "B"

HasNonBlank(text) == \E i \in 1..Len(text) : text[i] # " "

\* what the onboarding claim says of the two buttons and of createProfile,
\* with busy standing for what keeps Begin Training disabled
OnboardingGuarded(busy) ==
    /\ (Mounted /\ onboarding.step = 0) =>
          (~ContinueDisabled(onboarding) <=> HasNonBlank(onboarding.name))
    /\ onboarding.step = 1 => HasNonBlank(onboarding.name)
    /\ (Mounted /\ onboarding.step = 1) =>
          (~BeginDisabled(onboarding, userStore)
             <=> /\ onboarding.level \in Levels
                 /\ onboarding.level = "custom" => onboarding.customElo # ""
                 /\ ~busy)
    /\ \A k \in 1..Len(lastProfileCall) :
          /\ HasNonBlank(lastProfileCall[k].name)
          /\ lastProfileCall[k].level # ""

\* C18 as stated: Continue is enabled exactly for a name with a non-blank
\* character and leads to the level step; Begin Training is enabled exactly
\* when a level is selected (with an ELO for the custom level) and no
\* profile creation is in progress; createProfile is only called with a
\* non-blank name and a non-empty level.
C18_AsStated == OnboardingGuarded(pending = "createProfile")

\* C18, amended: the same, with Begin Training enabled exactly when a level
\* is selected (with an ELO for the custom level) and the user store is not
\* loading, which it is during a profile creation and during the profile
\* load that follows one.
C18_OnboardingGuarded == OnboardingGuarded(userStore.loading)

\* a profile has been created for a name typed with a leading blank and a
\* custom ELO
C18_Witness ==
    /\ Len(lastProfileCall) = 1
    /\ lastProfileCall[1].name = <<" ", "b">>
    /\ lastProfileCall[1].level = "1200"
    /\ userStore.hasOnboarded

\* the accumulator in which a fragment without identifier continues the
\* call whose identifier was seen last
RECURSIVE MergeBySeen(_, _, _)
MergeBySeen(cur, last, frags) ==
    IF frags = <<>> THEN cur
    ELSE LET f == Head(frags)
         IN  IF f.id # ""
             THEN MergeBySeen(MergeFragment(cur, f), f.id, Tail(frags))
             ELSE IF last = ""
             THEN MergeBySeen(cur, last, Tail(frags))
             ELSE MergeBySeen(MergeFragment(cur, Frag(last, f.name, f.arguments)),
                              last, Tail(frags))

\* C19: while a round streams, the accumulator is what its fragments give
\* when each fragment without identifier is merged into the call whose
\* identifier was most recently seen in the round.
C19_IdlessContinuesLastSeen ==
    (round >= 1 /\ pc = "Streaming") =>
       currentToolCalls = MergeBySeen(<<>>, "", AllFrags(wire[round]))

\* C20: while a round streams, the accumulator has one entry per
\* identifier, in the order the identifiers first appeared on the wire; a
\* step that reads a record keeps every entry at its place with its
\* identifier, and the entry's arguments text before the step is a prefix of
\* its arguments text after it.
C20_AccumulatorAppendOnly ==
    /\ [](\A k, l \in 1..Len(currentToolCalls) :
             currentToolCalls[k].id = currentToolCalls[l].id => k = l)
    /\ []((round >= 1 /\ pc = "Streaming") =>
             IdsOf(currentToolCalls) = FirstSeenIds(AllFrags(wire[round]), <<>>))
    /\ [][ (pc = "Streaming" /\ pc' = "Streaming")
            => /\ Len(currentToolCalls) <= Len(currentToolCalls')
               /\ \A k \in 1..Len(currentToolCalls) :
                     /\ currentToolCalls'[k].id = currentToolCalls[k].id
                     /\ IsPrefix(currentToolCalls[k].arguments,
                                 currentToolCalls'[k].arguments) ]_vars

\* the arguments of call A came in two fragments with the first fragment of
\* call B between them
C20_Witness ==
    /\ pc = "Streaming"
    /\ Len(currentToolCalls) = 2
    /\ currentToolCalls[1].id = "A"
    /\ currentToolCalls[1].arguments = <<"{", "}">>
    /\ currentToolCalls[2].id = "B"
    /\ Len(wire[round]) = 2

\* C21: while a round streams, an accumulator entry that has a non-empty
\* name keeps that name through every record read after it.
C21_NameFillsInOnce ==
    [][ (pc = "Streaming" /\ pc' = "Streaming")
        => \A k \in 1..Len(currentToolCalls) :
              currentToolCalls[k].name # "" =>
                 currentToolCalls'[k].name = currentToolCalls[k].name ]_vars

\* C22: while a round streams nothing of it is executed and no tool
\* callback fires; from the end of the stream on, the steps of the for loop
\* leave the round's calls as they are; and after a stream that failed no
\* call of its round is in the execution log, then or later.
C22_CallsCompleteBeforeExecution ==
    /\ [](pc = "Streaming" => \A i \in 1..Len(execLog) : execLog[i].round # round)
    /\ [][ (pc = "Streaming" /\ pc' \in {"Streaming", "Failed"})
            => /\ execLog' = execLog
               /\ ToolCallbacks' = ToolCallbacks
               /\ \A i \in 1..Len(execLog') : execLog'[i].round # round ]_vars
    /\ [][ InToolLoop => currentToolCalls' = currentToolCalls ]_vars
    /\ [][ pc = "Failed" => execLog' = execLog ]_vars

\* the stream of the second round failed after it had delivered a call,
\* and only the call of the first round was executed
C22_Witness ==
    /\ pc = "Failed"
    /\ round = 2
    /\ Len(currentToolCalls) >= 1
    /\ Len(openRouterMessages) = Len(InitialTranscript) + 2
    /\ Len(execLog) = 1
    /\ execLog[1].round = 1

\* the number of terminal callbacks the exchange has invoked
TerminalCallbacks == Len(CallsOf("onComplete")) + Len(CallsOf("onError"))

\* C23: an exchange that has ended has invoked exactly one of onComplete
\* and onError, once, as its last callback; one that has not ended has
\* invoked neither; and after the end there is no request, no execution
\* and no callback.
C23_OneTerminalCallback ==
    /\ [](Terminal => /\ TerminalCallbacks = 1
                       /\ calls[Len(calls)].cb \in {"onComplete", "onError"}
                       /\ (pc = "Done") = (CallsOf("onComplete") # <<>>))
    /\ [](~Terminal => TerminalCallbacks = 0)
    /\ [][ Terminal => /\ calls' = calls
                        /\ execLog' = execLog
                        /\ round' = round
                        /\ pc' = pc ]_vars

\* an exchange that ended in its second round after a tool was executed
\* and reported through both tool callbacks
C23_Witness ==
    /\ pc = "Done"
    /\ round = 2
    /\ Len(execLog) >= 1
    /\ CallsOf("onToolCall") # <<>>
    /\ CallsOf("onToolResult") # <<>>
    /\ calls[Len(calls)].cb = "onComplete"

\* C24: when the exchange ends in Done the text given to onComplete is the
\* concatenation of all chunks given to onChunk in the exchange, and it is
\* what the caller shows or resolves with.
C24_CompleteTextIsStreamedText ==
    pc = "Done" =>
       /\ CallsOf("onComplete")[1].text = Streamed
       /\ display.content = Streamed

\* the messages appended to the transcript after the latest request
Unsent == SubSeq(openRouterMessages, Len(requested) + 1, Len(openRouterMessages))

\* C25 as stated: when the exchange ends in Done every tool result of the
\* transcript was in the messages of a request.
C25_AsStated ==
    pc = "Done" =>
       \A p \in 1..Len(openRouterMessages) :
          openRouterMessages[p].role = "tool" =>
             /\ p <= Len(requested)
             /\ requested[p] = openRouterMessages[p]

\* C25: every request carries the whole transcript; an exchange that ends
\* because a stream brought no tool call has sent every tool result, and
\* one that ends because the budget ran out has sent all but the
\* assistant message and the results of its last round.
C25_ResultsSentUnlessBudgetEnds ==
    /\ IsPrefix(requested, openRouterMessages)
    /\ (pc = "Done" /\ ~SoftStopped) => requested = openRouterMessages
    /\ SoftStopped =>
          /\ round = MaxRounds
          /\ Len(Unsent) = 1 + Len(currentToolCalls)
          /\ Unsent[1].role = "assistant"
          /\ \A k \in 2..Len(Unsent) : Unsent[k].role = "tool"

\* a third round without tool calls ended the exchange after two rounds
\* whose tool results were sent
C25_Witness ==
    /\ pc = "Done"
    /\ ~SoftStopped
    /\ round = 3
    /\ Len(ToolMessages) >= 2
    /\ requested = openRouterMessages

\* the bytes the reader has handed over so far
Consumed ==
    SubSeq(reading.body, 1, Len(reading.body) - Len(reading.unread))

\* what the loop has made of the bytes it was given
Progress(r) ==
    <<r.held, r.buffer, r.fullText, r.currentToolCalls, r.hasToolCalls, r.chunks>>

\* the round's state after one read that delivers all of bytes
OneRead(bytes) == ApplyRead(ReadingIdle, bytes)

\* C26: however the reader cuts a body of newline-terminated records into
\* values, after any number of reads the chunks given to onChunk, the
\* accumulated calls and the buffered rest are those of one read of the
\* same bytes, and at the end of the body so is the outcome of the round.
C26_ReadBoundaryInvariance ==
    /\ reading.phase \in {"reading", "ended"} =>
          Progress(reading) = Progress(OneRead(Consumed))
    /\ reading.phase = "ended" =>
          LET whole == OneRead(reading.body)
          IN  /\ reading.buffer = <<>>
              /\ reading.outcome =
                    [pc   |-> IF NoToolCalls(whole.hasToolCalls,
                                             whole.currentToolCalls)
                              THEN "Done" ELSE "AwaitingToolResults",
                     text |-> whole.fullText]

\* a body with a text record and a call record was read to its end with a
\* read boundary inside a record
C26_Witness ==
    /\ reading.phase = "ended"
    /\ reading.cutInside
    /\ reading.chunks # <<>>
    /\ reading.currentToolCalls # <<>>
    /\ reading.outcome.pc = "AwaitingToolResults"

\* the fragments of these lines are all without identifier
Orphans(lines) ==
    /\ AllFrags(lines) # <<>>
    /\ \A i \in 1..Len(AllFrags(lines)) : AllFrags(lines)[i].id = ""

\* C27: a record of fragments without identifier read while the accumulator
\* is empty leaves it empty; and when the stream of a round whose fragments
\* were all of that kind ends, the exchange ends in Done through onComplete
\* with the round's text, nothing is executed and no message is appended.
C27_OrphanFragmentsDropped ==
    /\ [][ (pc = "Streaming" /\ pc' = "Streaming" /\ currentToolCalls = <<>>
             /\ Orphans(<<wire'[round][Len(wire'[round])]>>))
            => currentToolCalls' = <<>> /\ hasToolCalls' ]_vars
    /\ [][ (pc = "Streaming" /\ pc' \notin {"Streaming", "Failed"}
             /\ Orphans(wire[round]))
            => /\ pc' = "Done"
               /\ calls' = Append(calls, Call("onComplete", "",
                                              Flatten(TextOf(wire[round])),
                                              NoValue, NoResult))
               /\ openRouterMessages' = openRouterMessages
               /\ execLog' = execLog ]_vars
    /\ []((round >= 1 /\ Orphans(wire[round]))
              => /\ currentToolCalls = <<>>
                 /\ pc \in {"Streaming", "Done", "Failed"})

\* the second round, after a round with an executed call, brought text and
\* a fragment without identifier and ended the exchange
C27_Witness ==
    /\ pc = "Done"
    /\ round = 2
    /\ Len(execLog) = 1
    /\ Orphans(wire[2])
    /\ TextOf(wire[2]) # <<>>
    /\ Len(openRouterMessages) = Len(InitialTranscript) + 2

\* C28: isThinking is up only while a makeEngineMove is waiting for a
\* reply: once every engine-move request and move application has been
\* answered, by success, rejection or a throw, it is down again.
C28_ThinkingEnds ==
    gameStore.isThinking =>
       \E t \in inFlight : t.fn = "makeEngineMove"

\* C29: once startNewGame has installed an initial position and until
\* another position is installed, every step that changes gameState or
\* gameHistory gives a position of that game and appends only moves made
\* in positions of that game.
C29_NoStaleMove ==
    [][ (/\ installed.by = "startNewGame"
         /\ installed' = installed
         /\ \/ gameStore'.gameState # gameStore.gameState
            \/ gameStore'.gameHistory # gameStore.gameHistory)
        => /\ gameStore'.gameState.game = installed.game
           /\ \A i \in (Len(gameStore.gameHistory) + 1)..Len(gameStore'.gameHistory) :
                 gameStore'.gameHistory[i].on.game = installed.game ]_vars

\* C30: score and streak of the training store are those obtained by
\* applying the outcomes of the answered checkSolution calls one at a time
\* in the order of their replies.
C30_ScoreIsSequential ==
    /\ training.score = sequential.score
    /\ training.streak = sequential.streak

====
